---- MODULE Spec2Model ----
(***************************************************************************)
(* Long-to-wide consolidation and scoring engine of the REDCap data        *)
(* integration pipeline (scripts/integrate.py).                            *)
(*                                                                         *)
(* Strings that the code inspects by content (visit labels, column names)  *)
(* are sequences of tokens: the string is the tokens joined by "_", so     *)
(* 'timepoint_3_r_arm_1' is <<"timepoint","3","r","arm","1">> and the      *)
(* f-string f'{var}_{col}' is var \o <<col>>.  A cell is <<>> when it is   *)
(* null (NaN / None) and <<v>> when it holds v.                            *)
(***************************************************************************)
EXTENDS Integers, Sequences, FiniteSets, TLC

VARIABLES pc, df, df_rescheduled, df_participants, df_time_varying, df_wide,
          pivot_path, printed, df_outcomes, df_scale_summary, report

vars == <<pc, df, df_rescheduled, df_participants, df_time_varying, df_wide,
          pivot_path, printed, df_outcomes, df_scale_summary, report>>

(***************************************************************************)
(* Bounds of the checked inputs                                            *)
(***************************************************************************)
MaxRows == 2

MaxPid == 2

MaxVal == 1

(***************************************************************************)
(* Null and present cells                                                  *)
(***************************************************************************)
NA == <<>>

isna(v) == v = NA

notna(v) == v # NA

(***************************************************************************)
(* TIMEPOINT MAPPING                                                       *)
(***************************************************************************)
\* the mapping with the rescheduled label of timepoint 3 sent to t4
TIMEPOINT_MAP_slip ==
  (<<"timepoint", "1", "arm", "1">>      :> "t1") @@
  (<<"timepoint", "2", "arm", "1">>      :> "t2") @@
  (<<"timepoint", "2", "r", "arm", "1">> :> "t2") @@
  (<<"timepoint", "3", "arm", "1">>      :> "t3") @@
  (<<"timepoint", "3", "r", "arm", "1">> :> "t4") @@
  (<<"timepoint", "4", "arm", "1">>      :> "t4") @@
  (<<"timepoint", "4", "r", "arm", "1">> :> "t4") @@
  (<<"timepoint", "5", "arm", "1">>      :> "t5") @@
  (<<"timepoint", "5", "r", "arm", "1">> :> "t5") @@
  (<<"timepoint", "6", "arm", "1">>      :> "t6") @@
  (<<"timepoint", "6", "r", "arm", "1">> :> "t6")

TIMEPOINT_MAP ==
  (<<"timepoint", "1", "arm", "1">>      :> "t1") @@
  (<<"timepoint", "2", "arm", "1">>      :> "t2") @@
  (<<"timepoint", "2", "r", "arm", "1">> :> "t2") @@
  (<<"timepoint", "3", "arm", "1">>      :> "t3") @@
  (<<"timepoint", "3", "r", "arm", "1">> :> "t3") @@
  (<<"timepoint", "4", "arm", "1">>      :> "t4") @@
  (<<"timepoint", "4", "r", "arm", "1">> :> "t4") @@
  (<<"timepoint", "5", "arm", "1">>      :> "t5") @@
  (<<"timepoint", "5", "r", "arm", "1">> :> "t5") @@
  (<<"timepoint", "6", "arm", "1">>      :> "t6") @@
  (<<"timepoint", "6", "r", "arm", "1">> :> "t6")

TIMEPOINT_ORDER == <<"t1", "t2", "t3", "t4", "t5", "t6">>

OUTPUT_TIMEPOINT_LABELS ==
  ("t1" :> "bl") @@ ("t2" :> "3d") @@ ("t3" :> "1mo") @@
  ("t4" :> "3mo") @@ ("t5" :> "6mo") @@ ("t6" :> "12mo")

(***************************************************************************)
(* QUESTIONNAIRE DEFINITIONS, in the order of the dictionary               *)
(***************************************************************************)
QUESTIONNAIRES ==
  <<
    [key |-> <<"phq9">>, items |-> 9, item_range |-> <<0, 3>>, total_range |-> <<0, 27>>,
     scoring |-> "sum", timepoints |-> {1, 3, 4, 5, 6}, higher_is_worse |-> TRUE],
    [key |-> <<"gad7">>, items |-> 7, item_range |-> <<0, 3>>, total_range |-> <<0, 21>>,
     scoring |-> "sum", timepoints |-> {1, 3, 4, 5, 6}, higher_is_worse |-> TRUE],
    [key |-> <<"who5">>, items |-> 5, item_range |-> <<0, 5>>, total_range |-> <<0, 100>>,
     scoring |-> "sum_x4", timepoints |-> {1, 3, 4, 5, 6}, higher_is_worse |-> FALSE],
    [key |-> <<"psyflex">>, items |-> 6, item_range |-> <<1, 5>>, total_range |-> <<6, 30>>,
     scoring |-> "sum", timepoints |-> {1, 3, 4, 5, 6}, higher_is_worse |-> FALSE],
    [key |-> <<"auditc">>, items |-> 3, item_range |-> <<0, 4>>, total_range |-> <<0, 12>>,
     scoring |-> "sum", timepoints |-> {1, 3, 4, 5, 6}, higher_is_worse |-> TRUE],
    [key |-> <<"audit", "full">>, items |-> 10, item_range |-> <<0, 4>>, total_range |-> <<0, 40>>,
     scoring |-> "sum", timepoints |-> {1, 3, 4, 5, 6}, higher_is_worse |-> TRUE],
    [key |-> <<"meq4">>, items |-> 4, item_range |-> <<0, 5>>, total_range |-> <<0, 5>>,
     scoring |-> "mean", timepoints |-> {2}, higher_is_worse |-> FALSE],
    [key |-> <<"ebi">>, items |-> 6, item_range |-> <<0, 5>>, total_range |-> <<0, 30>>,
     scoring |-> "sum", timepoints |-> {2}, higher_is_worse |-> FALSE],
    [key |-> <<"ceq">>, items |-> 7, item_range |-> <<0, 5>>, total_range |-> <<0, 35>>,
     scoring |-> "sum", timepoints |-> {2}, higher_is_worse |-> TRUE],
    [key |-> <<"piq">>, items |-> 23, item_range |-> <<1, 5>>, total_range |-> <<23, 115>>,
     scoring |-> "sum", timepoints |-> {2}, higher_is_worse |-> FALSE],
    [key |-> <<"sscs">>, items |-> 6, item_range |-> <<1, 5>>, total_range |-> <<6, 30>>,
     scoring |-> "sum", timepoints |-> {2}, higher_is_worse |-> FALSE],
    [key |-> <<"mpod", "s">>, items |-> 3, item_range |-> <<1, 5>>, total_range |-> <<3, 15>>,
     scoring |-> "sum", timepoints |-> {2}, higher_is_worse |-> FALSE],
    [key |-> <<"epds">>, items |-> 10, item_range |-> <<0, 3>>, total_range |-> <<0, 30>>,
     scoring |-> "sum", timepoints |-> {1, 3, 4, 5, 6}, higher_is_worse |-> TRUE],
    [key |-> <<"ymrs">>, items |-> 11, item_range |-> <<0, 4>>, total_range |-> <<0, 60>>,
     scoring |-> "sum", timepoints |-> {1, 3, 4, 5, 6}, higher_is_worse |-> TRUE],
    [key |-> <<"pdss">>, items |-> 7, item_range |-> <<0, 4>>, total_range |-> <<0, 28>>,
     scoring |-> "sum", timepoints |-> {1, 3, 4, 5, 6}, higher_is_worse |-> TRUE],
    [key |-> <<"spin">>, items |-> 17, item_range |-> <<0, 4>>, total_range |-> <<0, 68>>,
     scoring |-> "sum", timepoints |-> {1, 3, 4, 5, 6}, higher_is_worse |-> TRUE],
    [key |-> <<"specific", "phobia">>, items |-> 10, item_range |-> <<0, 4>>, total_range |-> <<0, 40>>,
     scoring |-> "sum", timepoints |-> {1, 3, 4, 5, 6}, higher_is_worse |-> TRUE],
    [key |-> <<"pcl">>, items |-> 20, item_range |-> <<1, 5>>, total_range |-> <<20, 100>>,
     scoring |-> "sum", timepoints |-> {1, 3, 4, 5, 6}, higher_is_worse |-> TRUE],
    [key |-> <<"ies", "r">>, items |-> 22, item_range |-> <<0, 4>>, total_range |-> <<0, 88>>,
     scoring |-> "sum", timepoints |-> {1, 3, 4, 5, 6}, higher_is_worse |-> TRUE],
    [key |-> <<"pg13">>, items |-> 13, item_range |-> <<1, 5>>, total_range |-> <<13, 65>>,
     scoring |-> "sum", timepoints |-> {1, 3, 4, 5, 6}, higher_is_worse |-> TRUE],
    [key |-> <<"lpfs">>, items |-> 12, item_range |-> <<1, 4>>, total_range |-> <<12, 48>>,
     scoring |-> "sum", timepoints |-> {1, 3, 4, 5, 6}, higher_is_worse |-> TRUE],
    [key |-> <<"bsl23">>, items |-> 23, item_range |-> <<0, 4>>, total_range |-> <<0, 92>>,
     scoring |-> "sum", timepoints |-> {1, 3, 4, 5, 6}, higher_is_worse |-> TRUE],
    [key |-> <<"iat">>, items |-> 20, item_range |-> <<1, 5>>, total_range |-> <<20, 100>>,
     scoring |-> "sum", timepoints |-> {1, 3, 4, 5, 6}, higher_is_worse |-> TRUE],
    [key |-> <<"sogs">>, items |-> 20, item_range |-> <<0, 1>>, total_range |-> <<0, 20>>,
     scoring |-> "sum", timepoints |-> {1, 3, 4, 5, 6}, higher_is_worse |-> TRUE],
    [key |-> <<"hrs">>, items |-> 5, item_range |-> <<0, 8>>, total_range |-> <<0, 40>>,
     scoring |-> "sum", timepoints |-> {1, 3, 4, 5, 6}, higher_is_worse |-> TRUE],
    [key |-> <<"ybocs">>, items |-> 10, item_range |-> <<0, 4>>, total_range |-> <<0, 40>>,
     scoring |-> "sum", timepoints |-> {1, 3, 4, 5, 6}, higher_is_worse |-> TRUE],
    [key |-> <<"asq">>, items |-> 28, item_range |-> <<0, 1>>, total_range |-> <<0, 28>>,
     scoring |-> "sum", timepoints |-> {1, 3, 4, 5, 6}, higher_is_worse |-> TRUE],
    [key |-> <<"asrs">>, items |-> 18, item_range |-> <<0, 4>>, total_range |-> <<0, 72>>,
     scoring |-> "sum", timepoints |-> {1, 3, 4, 5, 6}, higher_is_worse |-> TRUE],
    [key |-> <<"atq">>, items |-> 20, item_range |-> <<0, 4>>, total_range |-> <<0, 80>>,
     scoring |-> "sum", timepoints |-> {1, 3, 4, 5, 6}, higher_is_worse |-> TRUE],
    [key |-> <<"cpib">>, items |-> 10, item_range |-> <<0, 3>>, total_range |-> <<0, 30>>,
     scoring |-> "sum", timepoints |-> {1, 3, 4, 5, 6}, higher_is_worse |-> FALSE],
    [key |-> <<"panss">>, items |-> 30, item_range |-> <<1, 7>>, total_range |-> <<30, 210>>,
     scoring |-> "sum", timepoints |-> {1, 3, 4, 5, 6}, higher_is_worse |-> TRUE],
    [key |-> <<"dss">>, items |-> 8, item_range |-> <<0, 4>>, total_range |-> <<0, 32>>,
     scoring |-> "sum", timepoints |-> {1, 3, 4, 5, 6}, higher_is_worse |-> TRUE],
    [key |-> <<"edeqs">>, items |-> 12, item_range |-> <<0, 3>>, total_range |-> <<0, 36>>,
     scoring |-> "sum", timepoints |-> {1, 3, 4, 5, 6}, higher_is_worse |-> TRUE],
    [key |-> <<"psqi">>, items |-> 7, item_range |-> <<0, 3>>, total_range |-> <<0, 21>>,
     scoring |-> "sum", timepoints |-> {1, 3, 4, 5, 6}, higher_is_worse |-> TRUE],
    [key |-> <<"cfq">>, items |-> 25, item_range |-> <<0, 4>>, total_range |-> <<0, 100>>,
     scoring |-> "sum", timepoints |-> {1, 3, 4, 5, 6}, higher_is_worse |-> TRUE],
    [key |-> <<"peg">>, items |-> 3, item_range |-> <<0, 10>>, total_range |-> <<0, 30>>,
     scoring |-> "sum", timepoints |-> {1, 3, 4, 5, 6}, higher_is_worse |-> TRUE],
    [key |-> <<"rrs">>, items |-> 22, item_range |-> <<1, 4>>, total_range |-> <<22, 88>>,
     scoring |-> "sum", timepoints |-> {1, 2, 3, 4, 5, 6}, higher_is_worse |-> TRUE],
    [key |-> <<"bcss">>, items |-> 24, item_range |-> <<0, 4>>, total_range |-> <<0, 96>>,
     scoring |-> "sum", timepoints |-> {1, 2, 3, 4, 5, 6}, higher_is_worse |-> TRUE],
    [key |-> <<"bis">>, items |-> 8, item_range |-> <<1, 4>>, total_range |-> <<8, 32>>,
     scoring |-> "sum", timepoints |-> {1, 2, 3, 4, 5, 6}, higher_is_worse |-> TRUE],
    [key |-> <<"bfi10">>, items |-> 10, item_range |-> <<1, 5>>, total_range |-> <<10, 50>>,
     scoring |-> "sum", timepoints |-> {1, 2, 3, 4, 5, 6}, higher_is_worse |-> FALSE],
    [key |-> <<"mpod", "t">>, items |-> 15, item_range |-> <<1, 5>>, total_range |-> <<15, 75>>,
     scoring |-> "sum", timepoints |-> {1, 2, 3, 4, 5, 6}, higher_is_worse |-> FALSE],
    [key |-> <<"csq8">>, items |-> 8, item_range |-> <<1, 4>>, total_range |-> <<8, 32>>,
     scoring |-> "sum", timepoints |-> {3}, higher_is_worse |-> FALSE],
    [key |-> <<"expectancy">>, items |-> 1, item_range |-> <<0, 10>>, total_range |-> <<0, 10>>,
     scoring |-> "single", timepoints |-> {1}, higher_is_worse |-> FALSE],
    [key |-> <<"swiss", "se">>, items |-> 32, item_range |-> <<0, 5>>, total_range |-> <<0, 160>>,
     scoring |-> "sum", timepoints |-> {2, 3, 4, 5, 6}, higher_is_worse |-> TRUE],
    [key |-> <<"nida", "cannabis">>, items |-> 5, item_range |-> <<0, 4>>, total_range |-> <<0, 20>>,
     scoring |-> "sum", timepoints |-> {1, 3, 4, 5, 6}, higher_is_worse |-> TRUE],
    [key |-> <<"nida", "cocaine">>, items |-> 5, item_range |-> <<0, 4>>, total_range |-> <<0, 20>>,
     scoring |-> "sum", timepoints |-> {1, 3, 4, 5, 6}, higher_is_worse |-> TRUE],
    [key |-> <<"nida", "stimulants">>, items |-> 5, item_range |-> <<0, 4>>, total_range |-> <<0, 20>>,
     scoring |-> "sum", timepoints |-> {1, 3, 4, 5, 6}, higher_is_worse |-> TRUE],
    [key |-> <<"nida", "meth">>, items |-> 5, item_range |-> <<0, 4>>, total_range |-> <<0, 20>>,
     scoring |-> "sum", timepoints |-> {1, 3, 4, 5, 6}, higher_is_worse |-> TRUE],
    [key |-> <<"nida", "inhalants">>, items |-> 5, item_range |-> <<0, 4>>, total_range |-> <<0, 20>>,
     scoring |-> "sum", timepoints |-> {1, 3, 4, 5, 6}, higher_is_worse |-> TRUE],
    [key |-> <<"nida", "sedatives">>, items |-> 5, item_range |-> <<0, 4>>, total_range |-> <<0, 20>>,
     scoring |-> "sum", timepoints |-> {1, 3, 4, 5, 6}, higher_is_worse |-> TRUE],
    [key |-> <<"nida", "hallucinogens">>, items |-> 5, item_range |-> <<0, 4>>, total_range |-> <<0, 20>>,
     scoring |-> "sum", timepoints |-> {1, 3, 4, 5, 6}, higher_is_worse |-> TRUE],
    [key |-> <<"nida", "street", "opioids">>, items |-> 5, item_range |-> <<0, 4>>, total_range |-> <<0, 20>>,
     scoring |-> "sum", timepoints |-> {1, 3, 4, 5, 6}, higher_is_worse |-> TRUE],
    [key |-> <<"nida", "rx", "opioids">>, items |-> 5, item_range |-> <<0, 4>>, total_range |-> <<0, 20>>,
     scoring |-> "sum", timepoints |-> {1, 3, 4, 5, 6}, higher_is_worse |-> TRUE]
  >>

(***************************************************************************)
(* Helpers for sequences and names                                         *)
(***************************************************************************)
Range(s) == {s[i] : i \in 1..Len(s)}

\* str(i) for the item indices of the registry (the largest instrument has 32)
ItemStr ==
  <<"1", "2", "3", "4", "5", "6", "7", "8", "9", "10", "11", "12", "13", "14",
    "15", "16", "17", "18", "19", "20", "21", "22", "23", "24", "25", "26",
    "27", "28", "29", "30", "31", "32">>

\* int(tp[1]) for tp in TIMEPOINT_ORDER
TpNum(tp) == CHOOSE k \in 1..Len(TIMEPOINT_ORDER) : TIMEPOINT_ORDER[k] = tp

\* df['record_id'].unique(): the identifiers in order of first appearance
RECURSIVE UniqueSeq(_)
UniqueSeq(s) ==
  IF s = <<>> THEN <<>>
  ELSE LET r == UniqueSeq(SubSeq(s, 1, Len(s) - 1))
       IN  IF s[Len(s)] \in Range(r) THEN r ELSE Append(r, s[Len(s)])

UniqueIds(d) == UniqueSeq([i \in 1..Len(d.rows) |-> d.rows[i].record_id])

\* indices of the rows of one participant, df[df['record_id'] == record_id]
RowsOf(d, record_id) == {i \in 1..Len(d.rows) : d.rows[i].record_id = record_id}

\* row.get(col, nan)
Get(d, row, col) == IF col \in d.columns THEN row.vals[col] ELSE NA

(***************************************************************************)
(* DETERMINE RESCHEDULED STATUS                                            *)
(***************************************************************************)
\* '_r_' in event: the label has a token r strictly between two separators
ContainsR(event) == \E i \in 2..(Len(event) - 1) : event[i] = "r"

determine_dosing_rescheduled(d) ==
  LET ids == UniqueIds(d)
  IN  [k \in 1..Len(ids) |->
         [record_id |-> ids[k],
          dosing_rescheduled |->
             \E i \in RowsOf(d, ids[k]) : ContainsR(d.rows[i].redcap_event_name)]]

(***************************************************************************)
(* EXTRACT PARTICIPANT INFO                                                *)
(***************************************************************************)
\* A text cell holds a sequence of characters; str.strip() removes the
\* leading and trailing whitespace.
Whitespace == {" "}

RECURSIVE lstrip(_)
lstrip(s) == IF s # <<>> /\ s[1] \in Whitespace THEN lstrip(Tail(s)) ELSE s

RECURSIVE rstrip(_)
rstrip(s) ==
  IF s # <<>> /\ s[Len(s)] \in Whitespace THEN rstrip(SubSeq(s, 1, Len(s) - 1)) ELSE s

strip(s) == rstrip(lstrip(s))

NAME_FIELDS ==
  << <<"consent", "nameprint">>, <<"consent", "nameprint", "v2">>,
     <<"consent", "nameprint", "v3">> >>

\* name_field in baseline.index and pd.notna(val) and str(val).strip() != ''
UsableName(d, baseline, name_field) ==
  /\ name_field \in d.columns
  /\ notna(baseline.vals[name_field])
  /\ strip(baseline.vals[name_field][1]) # <<>>

\* the indices of NAME_FIELDS that hold a usable name
UsableNames(d, baseline) ==
  {k \in 1..Len(NAME_FIELDS) : UsableName(d, baseline, NAME_FIELDS[k])}

\* the loop without break: the value of the last usable name field
FirstName_last(d, baseline) ==
  LET u == UsableNames(d, baseline)
  IN  IF u = {} THEN NA
      ELSE baseline.vals[NAME_FIELDS[CHOOSE k \in u : \A j \in u : k >= j]]

\* the loop with break: the value of the first usable name field, else None
FirstName(d, baseline) ==
  LET u == UsableNames(d, baseline)
  IN  IF u = {} THEN NA
      ELSE baseline.vals[NAME_FIELDS[CHOOSE k \in u : \A j \in u : k <= j]]

\* the chain with the psilocybin field tested before the age field
ConsentStatus_psilocybin_first(d, baseline) ==
  LET consent_age == Get(d, baseline, <<"consent", "age">>)
      psilocybin  == Get(d, baseline, <<"consent", "psilocybintherapy">>)
  IN  IF isna(psilocybin) THEN "incomplete"
      ELSE IF psilocybin = <<0>> THEN "failed_psilocybin_check"
      ELSE IF isna(consent_age) THEN "incomplete"
      ELSE IF consent_age = <<0>> THEN "failed_age_check"
      ELSE IF UsableNames(d, baseline) # {} THEN "passed"
      ELSE "eligible_but_incomplete"

\* the if / elif chain on consent_age, consent_psilocybintherapy and the names
ConsentStatus(d, baseline) ==
  LET consent_age == Get(d, baseline, <<"consent", "age">>)
      psilocybin  == Get(d, baseline, <<"consent", "psilocybintherapy">>)
  IN  IF isna(consent_age) THEN "incomplete"
      ELSE IF consent_age = <<0>> THEN "failed_age_check"
      ELSE IF isna(psilocybin) THEN "incomplete"
      ELSE IF psilocybin = <<0>> THEN "failed_psilocybin_check"
      ELSE IF UsableNames(d, baseline) # {} THEN "passed"
      ELSE "eligible_but_incomplete"

\* TIMEPOINT_MAP.get(e, e), the code 't3' being the one-token name <<"t3">>
Consolidated(e) == IF e \in DOMAIN TIMEPOINT_MAP THEN <<TIMEPOINT_MAP[e]>> ELSE e

UNKNOWN_PLAIN == <<"screening", "arm", "1">>

UNKNOWN_R == <<"visit", "r", "arm", "1">>

\* The order of Python's str comparison on the names that can occur in a
\* 'timepoints' list of the checked inputs: 's' < 't1' < .. < 't6' < 'v'.
StrOrder ==
  << UNKNOWN_PLAIN, <<"t1">>, <<"t2">>, <<"t3">>, <<"t4">>, <<"t5">>, <<"t6">>,
     UNKNOWN_R >>

\* sorted(set(...))
sorted(S) == SelectSeq(StrOrder, LAMBDA x : x \in S)

BASELINE_EVENT == <<"timepoint", "1", "arm", "1">>

\* every row of the participant taken as a baseline row
BaselineRows_any(d, rows) == rows

\* participant_rows[participant_rows['redcap_event_name'] == 'timepoint_1_arm_1']
BaselineRows(d, rows) ==
  {i \in rows : d.rows[i].redcap_event_name = BASELINE_EVENT}

DEMO_VARS ==
  { <<"age">>, <<"gender">>, <<"sex">>, <<"education">>, <<"relat">>, <<"latino">>,
    <<"income", "est">>, <<"military", "service">>, <<"consent", "date">> }

\* (prefix, n), the prefix without its three trailing underscores
CHECKBOX_PREFIXES ==
  << [prefix |-> <<"race1">>, n |-> 6], [prefix |-> <<"employ">>, n |-> 9],
     [prefix |-> <<"psychiatric", "medications">>, n |-> 8],
     [prefix |-> <<"psychedelics", "used">>, n |-> 9] >>

\* f'{prefix}{i}': 'race1___1' has two empty tokens between 'race1' and '1'
CheckboxColumn(prefix, i) == prefix \o <<"", "", ItemStr[i]>>

CheckboxColumns(k) ==
  {CheckboxColumn(CHECKBOX_PREFIXES[k].prefix, i) : i \in 1..CHECKBOX_PREFIXES[k].n}

DEMO_FIELDS == DEMO_VARS \cup UNION {CheckboxColumns(k) : k \in 1..Len(CHECKBOX_PREFIXES)}

\* "if var in baseline.index: info[var] = baseline[var]" for the demographic
\* variables and the checkbox columns
Demographics(d, baseline) ==
  [c \in DEMO_FIELDS \cap d.columns |-> baseline.vals[c]]

ParticipantInfo(d, resched, record_id) ==
  LET rows == RowsOf(d, record_id)
      rescheduled_row == {k \in 1..Len(resched) : resched[k].record_id = record_id}
      baseline_rows == BaselineRows(d, rows)
      has_baseline == baseline_rows # {}
      baseline == d.rows[CHOOSE i \in baseline_rows : \A j \in baseline_rows : i <= j]
      status == IF has_baseline THEN ConsentStatus(d, baseline) ELSE "no_baseline"
      events == [k \in 1..Cardinality(rows) |->
                   d.rows[CHOOSE i \in rows :
                            Cardinality({j \in rows : j < i}) = k - 1].redcap_event_name]
  IN  [record_id |-> record_id,
       dosing_rescheduled |->
          IF rescheduled_row # {}
          THEN resched[CHOOSE k \in rescheduled_row :
                         \A j \in rescheduled_row : k <= j].dosing_rescheduled
          ELSE FALSE,
       has_baseline |-> has_baseline,
       consent_age |->
          IF has_baseline THEN Get(d, baseline, <<"consent", "age">>) ELSE NA,
       consent_psilocybintherapy |->
          IF /\ has_baseline
             /\ notna(Get(d, baseline, <<"consent", "age">>))
             /\ Get(d, baseline, <<"consent", "age">>) # <<0>>
          THEN Get(d, baseline, <<"consent", "psilocybintherapy">>)
          ELSE NA,
       consent_status |-> status,
       consent_passed |-> status = "passed",
       consent_nameprint |-> IF has_baseline THEN FirstName(d, baseline) ELSE NA,
       demographics |-> IF has_baseline THEN Demographics(d, baseline) ELSE <<>>,
       events_original |-> events,
       n_events |-> Cardinality(rows),
       timepoints |-> sorted({Consolidated(events[k]) : k \in 1..Len(events)})]

\* pd.DataFrame(participant_info): a key that some dict has is a column, and
\* the rows of the dicts without that key hold NaN
FillFrame(infos) ==
  LET keys == UNION {DOMAIN infos[k].demographics : k \in 1..Len(infos)}
  IN  [k \in 1..Len(infos) |->
         [infos[k] EXCEPT !.demographics =
            [c \in keys |-> IF c \in DOMAIN infos[k].demographics
                            THEN infos[k].demographics[c] ELSE NA]]]

extract_participant_info(d, resched) ==
  LET ids == UniqueIds(d)
  IN  FillFrame([k \in 1..Len(ids) |-> ParticipantInfo(d, resched, ids[k])])

(***************************************************************************)
(* PIVOT TIME-VARYING DATA                                                 *)
(***************************************************************************)
\* The item and total columns that the registry names, before the filter on
\* df.columns: '{q_key}_{i}', '{q_key}_mean' or '{q_key}_total', and for
\* audit_full the items audit_4 .. audit_10.
QuestionnaireColumns(q) ==
  IF q.key = <<"audit", "full">>
  THEN {<<"audit", ItemStr[i]>> : i \in 4..10}
  ELSE {q.key \o <<ItemStr[i]>> : i \in 1..q.items}
         \cup {q.key \o <<IF q.scoring = "mean" THEN "mean" ELSE "total">>}

TimeVaryingCandidates ==
  UNION {QuestionnaireColumns(QUESTIONNAIRES[k]) : k \in 1..Len(QUESTIONNAIRES)}
    \cup {<<"audit", "remaining", "total">>,
          <<"treatment", "date">>, <<"treatment", "status">>}

\* time_varying = [c for c in time_varying if c in df.columns]
time_varying(d) == {c \in TimeVaryingCandidates : c \in d.columns}

\* the timepoint column without consolidation: a rescheduled label keeps
\* its own code (t3_r)
Timepoint_unconsolidated(event) ==
  IF event \in DOMAIN TIMEPOINT_MAP
  THEN IF \E i \in 2..(Len(event) - 1) : event[i] = "r"
       THEN <<TIMEPOINT_MAP[event] \o "_r">>
       ELSE <<TIMEPOINT_MAP[event]>>
  ELSE <<>>

\* df_wide['timepoint'] = df_wide['redcap_event_name'].map(TIMEPOINT_MAP):
\* a label that is not a key of the map gives NaN
Timepoint(event) ==
  IF event \in DOMAIN TIMEPOINT_MAP THEN <<TIMEPOINT_MAP[event]>> ELSE NA

\* the text that f'{var}_{col}' gives for a column label of the pivot
ColLabel(tp) == IF tp = NA THEN "nan" ELSE tp[1]

\* DataFrame.pivot raises ValueError ("Index contains duplicate entries")
\* when two rows have the same (record_id, timepoint), NaN included
HasDuplicateIndex(d) ==
  \E i, j \in 1..Len(d.rows) :
     /\ i < j
     /\ d.rows[i].record_id = d.rows[j].record_id
     /\ Timepoint(d.rows[i].redcap_event_name) = Timepoint(d.rows[j].redcap_event_name)

\* rows of one (record_id, timepoint) group, in input order
GroupRows(d, record_id, tp) ==
  {i \in RowsOf(d, record_id) : Timepoint(d.rows[i].redcap_event_name) = tp}

\* the pivot with the empty cells filled with 0
PivotFrame_fillzero(d) ==
  LET tv  == {c \in TimeVaryingCandidates : c \in d.columns}
      ids == {d.rows[i].record_id : i \in 1..Len(d.rows)}
      tps == {Timepoint(d.rows[i].redcap_event_name) : i \in 1..Len(d.rows)}
      cols == {var \o <<ColLabel(tp)>> : var \in tv, tp \in tps}
  IN  [index |-> ids, columns |-> cols,
       data |-> [id \in ids |->
                   [c \in cols |->
                      LET g == {i \in GroupRows(d, id, CHOOSE t \in tps : ColLabel(t) = c[Len(c)]) :
                                  notna(d.rows[i].vals[SubSeq(c, 1, Len(c) - 1)])}
                      IN  IF g = {} THEN <<0>>
                          ELSE d.rows[CHOOSE i \in g : TRUE].vals[SubSeq(c, 1, Len(c) - 1)]]]]

\* The try branch: pivot(index='record_id', columns='timepoint', values=var)
\* for every var, merged on record_id.  NaN is kept as a column label.
PivotFrame(d) ==
  LET tv  == time_varying(d)
      ids == Range(UniqueIds(d))
      tps == {Timepoint(d.rows[i].redcap_event_name) : i \in 1..Len(d.rows)}
      cols == {var \o <<ColLabel(tp)>> : var \in tv, tp \in tps}
      cell(id, var, tp) ==
        LET g == GroupRows(d, id, tp)
        IN  IF g = {} THEN NA ELSE d.rows[CHOOSE i \in g : TRUE].vals[var]
  IN  [index |-> ids, columns |-> cols,
       data |-> [id \in ids |->
                   [c \in cols |->
                      LET var == CHOOSE v \in tv : \E tp \in tps : c = v \o <<ColLabel(tp)>>
                          tp  == CHOOSE t \in tps : c = var \o <<ColLabel(t)>>
                      IN  cell(id, var, tp)]]]

\* GroupBy.last(): the last non-null value of the group
GroupFirst_last(d, g, var) ==
  LET nn == {i \in g : d.rows[i].vals[var] # <<>>}
  IN  IF nn = {} THEN <<>>
      ELSE d.rows[CHOOSE i \in nn : \A j \in nn : i >= j].vals[var]

\* GroupBy.first(): the first non-null value of the group, in row order
GroupFirst(d, g, var) ==
  LET nn == {i \in g : notna(d.rows[i].vals[var])}
  IN  IF nn = {} THEN NA
      ELSE d.rows[CHOOSE i \in nn : \A j \in nn : i <= j].vals[var]

\* The except branch: groupby(['record_id', 'timepoint'])[var].first()
\* .unstack().  groupby drops the rows whose key is NaN.
GroupedFrame(d) ==
  LET tv   == time_varying(d)
      kept == {i \in 1..Len(d.rows) : Timepoint(d.rows[i].redcap_event_name) # NA}
      ids  == {d.rows[i].record_id : i \in kept}
      tps  == {Timepoint(d.rows[i].redcap_event_name) : i \in kept}
      cols == {var \o <<ColLabel(tp)>> : var \in tv, tp \in tps}
  IN  [index |-> ids, columns |-> cols,
       data |-> [id \in ids |->
                   [c \in cols |->
                      LET var == CHOOSE v \in tv : \E tp \in tps : c = v \o <<ColLabel(tp)>>
                          tp  == CHOOSE t \in tps : c = var \o <<ColLabel(t)>>
                      IN  GroupFirst(d, GroupRows(d, id, tp), var)]]]

\* else branch of "if pivoted_dfs": only the record_id column
IdFrame(d) ==
  [index |-> Range(UniqueIds(d)), columns |-> {},
   data |-> [id \in Range(UniqueIds(d)) |-> <<>>]]

\* which branch the function takes
PivotPath(d) ==
  IF time_varying(d) = {} THEN "ids_only"
  ELSE IF HasDuplicateIndex(d) THEN "groupby_first"
  ELSE "pivot"

pivot_time_varying(d) ==
  CASE PivotPath(d) = "ids_only"      -> IdFrame(d)
    [] PivotPath(d) = "groupby_first" -> GroupedFrame(d)
    [] PivotPath(d) = "pivot"         -> PivotFrame(d)

(***************************************************************************)
(* MERGE: df_participants.merge(df_time_varying, on='record_id',           *)
(* how='left').  The pivot has one row for each record_id of its index.    *)
(***************************************************************************)
\* the merge with how='inner': only the participants that the pivot kept
merge_left_inner(participants, tv) ==
  [columns |-> tv.columns,
   rows |-> LET kept == SelectSeq(participants, LAMBDA p : p.record_id \in tv.index)
            IN  [k \in 1..Len(kept) |->
                   [info |-> kept[k], cells |-> tv.data[kept[k].record_id]]]]

RACE_LABELS == <<"AI/AN", "Asian", "Black", "NH/PI", "White", "Other">>

PSYCHEDELICS_LABELS ==
  <<"Psilocybin", "LSD", "MDMA", "Ayahuasca", "DMT", "Mescaline", "Ketamine",
    "Salvia", "Other">>

\* labels = {i: f'Option {i}' ...} when labels is None
OPTION_LABELS ==
  <<"Option 1", "Option 2", "Option 3", "Option 4", "Option 5", "Option 6",
    "Option 7", "Option 8", "Option 9">>

\* checkbox_defs, in the order of CHECKBOX_PREFIXES
CheckboxLabels(k) ==
  IF k = 1 THEN RACE_LABELS ELSE IF k = 4 THEN PSYCHEDELICS_LABELS ELSE OPTION_LABELS

\* collapse_row: the labels of the options whose column is in the row and
\* holds 1, joined in option order; NaN when none is selected
collapse_checkbox(demo, k) ==
  LET selected == SelectSeq([i \in 1..CHECKBOX_PREFIXES[k].n |-> i],
                    LAMBDA i : /\ CheckboxColumn(CHECKBOX_PREFIXES[k].prefix, i) \in DOMAIN demo
                               /\ demo[CheckboxColumn(CHECKBOX_PREFIXES[k].prefix, i)] = <<1>>)
  IN  IF selected = <<>> THEN NA
      ELSE <<[j \in 1..Len(selected) |-> CheckboxLabels(k)[selected[j]]]>>

\* one pass of the loop of step 6 on the participant-level columns of a row:
\* new_name is the prefix, and the columns of the group are dropped
CollapseGroup(demo, k) ==
  IF CheckboxColumns(k) \cap DOMAIN demo = {} THEN demo
  ELSE [c \in ((DOMAIN demo) \ CheckboxColumns(k)) \cup {CHECKBOX_PREFIXES[k].prefix} |->
          IF c = CHECKBOX_PREFIXES[k].prefix THEN collapse_checkbox(demo, k) ELSE demo[c]]

\* step 6 of integrate_full, "Collapsing checkbox fields"
CollapseCheckboxes(w) ==
  [w EXCEPT !.rows =
     [n \in 1..Len(w.rows) |->
        [w.rows[n] EXCEPT !.info.demographics =
           CollapseGroup(CollapseGroup(CollapseGroup(CollapseGroup(@, 1), 2), 3), 4)]]]

merge_left(participants, tv) ==
  [columns |-> tv.columns,
   rows |-> [k \in 1..Len(participants) |->
               [info |-> participants[k],
                cells |-> IF participants[k].record_id \in tv.index
                          THEN tv.data[participants[k].record_id]
                          ELSE [c \in tv.columns |-> NA]]]]

(***************************************************************************)
(* SCORING FUNCTIONS                                                       *)
(***************************************************************************)
RECURSIVE SumSeq(_)
SumSeq(s) == IF s = <<>> THEN 0 ELSE s[1] + SumSeq(Tail(s))

\* vals = [row[i] for i in items if i in row.index and pd.notna(row[i])]
PresentVals(row, items) ==
  LET keep == SelectSeq(items, LAMBDA i : i \in DOMAIN row /\ notna(row[i]))
  IN  [k \in 1..Len(keep) |-> row[keep[k]][1]]

\* the number of present values in place of their sum
calc_sum_count(row, items) ==
  LET vals == PresentVals(row, items)
  IN  IF Len(vals) = Len(items) THEN <<Len(vals)>> ELSE NA

calc_sum(row, items) ==
  LET vals == PresentVals(row, items)
  IN  IF Len(vals) = Len(items) THEN <<SumSeq(vals)>> ELSE NA

\* the quotient cut to a whole number
calc_mean_floor(row, items) ==
  LET vals == PresentVals(row, items)
  IN  IF Len(vals) = Len(items)
      THEN <<[num |-> SumSeq(vals) \div Len(vals), den |-> 1]>>
      ELSE NA

\* np.mean(vals) is the exact quotient sum / count, kept as a fraction
calc_mean(row, items) ==
  LET vals == PresentVals(row, items)
  IN  IF Len(vals) = Len(items)
      THEN <<[num |-> SumSeq(vals), den |-> Len(vals)]>>
      ELSE NA

\* the second breakpoint read as "at most 10"
phq9_severity_inclusive(score) ==
  IF isna(score) THEN NA
  ELSE IF score[1] < 5 THEN <<"None-minimal">>
  ELSE IF score[1] <= 10 THEN <<"Mild">>
  ELSE IF score[1] < 15 THEN <<"Moderate">>
  ELSE IF score[1] < 20 THEN <<"Moderately severe">>
  ELSE <<"Severe">>

phq9_severity(score) ==
  IF isna(score) THEN NA
  ELSE IF score[1] < 5 THEN <<"None-minimal">>
  ELSE IF score[1] < 10 THEN <<"Mild">>
  ELSE IF score[1] < 15 THEN <<"Moderate">>
  ELSE IF score[1] < 20 THEN <<"Moderately severe">>
  ELSE <<"Severe">>

gad7_severity(score) ==
  IF isna(score) THEN NA
  ELSE IF score[1] < 5 THEN <<"Minimal">>
  ELSE IF score[1] < 10 THEN <<"Mild">>
  ELSE IF score[1] < 15 THEN <<"Moderate">>
  ELSE <<"Severe">>

\* the cutoff taken as exclusive
meq4_mystical_exclusive(x) ==
  IF isna(x) THEN NA
  ELSE IF 2 * x[1].num > 7 * x[1].den THEN <<"Yes">>
  ELSE <<"No">>

\* 'Yes' if pd.notna(x) and x >= 3.5 else ('No' if pd.notna(x) else np.nan)
meq4_mystical(x) ==
  IF isna(x) THEN NA
  ELSE IF 2 * x[1].num >= 7 * x[1].den THEN <<"Yes">>
  ELSE <<"No">>

(***************************************************************************)
(* CALCULATE SCORES                                                        *)
(***************************************************************************)
\* df[col] = df.apply(lambda row: F(row), axis=1): adds or overwrites col
AddColumn(w, col, F(_)) ==
  [columns |-> w.columns \cup {col},
   rows |-> [k \in 1..Len(w.rows) |->
               [info |-> w.rows[k].info,
                cells |-> (col :> F(w.rows[k].cells)) @@ w.rows[k].cells]]]

\* [f'{q_key}_{i}_{tp}' for i in range(lo, hi + 1)]
ItemNames(prefix, lo, hi, tp) ==
  [k \in 1..(hi - lo + 1) |-> prefix \o <<ItemStr[lo + k - 1], tp>>]

AllIn(items, columns) == \A k \in 1..Len(items) : items[k] \in columns

Times4(v) == IF isna(v) THEN NA ELSE <<v[1] * 4>>

\* the body of the loop over QUESTIONNAIRES for one timepoint
ScoreQuestionnaire(w, tp, q) ==
  LET items == ItemNames(q.key, 1, q.items, tp)
      auditc_items == ItemNames(<<"auditc">>, 1, 3, tp)
      audit_items  == ItemNames(<<"audit">>, 4, 10, tp)
      all_items    == auditc_items \o audit_items
      total        == q.key \o <<"total", tp>>
      version      == <<"audit", "version", tp>>
  IN  IF TpNum(tp) \notin q.timepoints THEN w
      ELSE IF q.key = <<"audit", "full">> THEN
        IF AllIn(auditc_items, w.columns) /\ AllIn(audit_items, w.columns) THEN
          AddColumn(
            AddColumn(w, <<"audit", "full", "total", tp>>,
                      LAMBDA row : calc_sum(row, all_items)),
            version,
            LAMBDA row : IF notna(calc_sum(row, audit_items)) THEN <<"full">>
                         ELSE IF notna(calc_sum(row, auditc_items)) THEN <<"short">>
                         ELSE NA)
        ELSE IF AllIn(auditc_items, w.columns) THEN
          AddColumn(w, version,
                    LAMBDA row : IF notna(calc_sum(row, auditc_items))
                                 THEN <<"short">> ELSE NA)
        ELSE w
      ELSE IF q.key = <<"auditc">> THEN
        IF AllIn(items, w.columns)
        THEN AddColumn(w, total, LAMBDA row : calc_sum(row, items))
        ELSE w
      ELSE IF ~AllIn(items, w.columns) THEN w
      ELSE IF q.scoring = "mean" THEN
        AddColumn(w, total, LAMBDA row : calc_mean(row, items))
      ELSE IF q.scoring = "sum_x4" THEN
        AddColumn(w, total, LAMBDA row : Times4(calc_sum(row, items)))
      ELSE AddColumn(w, total, LAMBDA row : calc_sum(row, items))

\* "Add severity classifications for key scales"
AddSeverity(w, tp) ==
  LET w1 == IF <<"phq9", "total", tp>> \in w.columns
            THEN AddColumn(w, <<"phq9", "severity", tp>>,
                           LAMBDA row : phq9_severity(row[<<"phq9", "total", tp>>]))
            ELSE w
      w2 == IF <<"gad7", "total", tp>> \in w1.columns
            THEN AddColumn(w1, <<"gad7", "severity", tp>>,
                           LAMBDA row : gad7_severity(row[<<"gad7", "total", tp>>]))
            ELSE w1
  IN  IF <<"meq4", "total", tp>> \in w2.columns
      THEN AddColumn(w2, <<"meq4", "mystical", tp>>,
                     LAMBDA row : meq4_mystical(row[<<"meq4", "total", tp>>]))
      ELSE w2

\* whether the loop body for (tp, q) writes a column: it reads only the
\* pivoted item columns, which no step of calculate_all_scores writes
Scores(columns, tp, q) ==
  /\ TpNum(tp) \in q.timepoints
  /\ IF q.key = <<"audit", "full">>
     THEN AllIn(ItemNames(<<"auditc">>, 1, 3, tp), columns)
     ELSE AllIn(ItemNames(q.key, 1, q.items, tp), columns)

\* The iterations of "for tp in TIMEPOINT_ORDER: for q_key, q_info in
\* QUESTIONNAIRES.items(): ...; severity", in order; k = Len + 1 is the
\* severity block that ends the body of the outer loop.
ScoreSteps ==
  [n \in 1..(Len(TIMEPOINT_ORDER) * (Len(QUESTIONNAIRES) + 1)) |->
     [tp |-> TIMEPOINT_ORDER[((n - 1) \div (Len(QUESTIONNAIRES) + 1)) + 1],
      k  |-> ((n - 1) % (Len(QUESTIONNAIRES) + 1)) + 1]]

ScoreStep(w, s) ==
  IF s.k = Len(QUESTIONNAIRES) + 1 THEN AddSeverity(w, s.tp)
  ELSE ScoreQuestionnaire(w, s.tp, QUESTIONNAIRES[s.k])

RECURSIVE ApplySteps(_, _)
ApplySteps(w, steps) ==
  IF steps = <<>> THEN w ELSE ApplySteps(ScoreStep(w, steps[1]), Tail(steps))

\* the iterations that leave the table unchanged are skipped
calculate_all_scores(w) ==
  ApplySteps(w, SelectSeq(ScoreSteps,
                          LAMBDA s : \/ s.k = Len(QUESTIONNAIRES) + 1
                                     \/ Scores(w.columns, s.tp, QUESTIONNAIRES[s.k])))

(***************************************************************************)
(* MAIN INTEGRATION: integrate_full, one action for each numbered step     *)
(***************************************************************************)
NoFrame == [index |-> {}, columns |-> {}, data |-> <<>>]

NoWide == [columns |-> {}, rows |-> <<>>]

\* no report has been asked for
NoReport == [outcome |-> "none"]

Msg(text, n) == [msg |-> text, n |-> n]

\* the visit labels of the checked inputs: standard and rescheduled
\* spellings of the map, and two labels that are not keys of the map
EventNames ==
  {BASELINE_EVENT,
   <<"timepoint", "3", "arm", "1">>,
   <<"timepoint", "3", "r", "arm", "1">>,
   UNKNOWN_PLAIN, UNKNOWN_R}

\* the data column of the checked inputs: the item of a registry
\* instrument, or a column that no instrument names
InputVars == {<<"expectancy", "1">>, <<"mood">>}

Cells == {NA} \cup {<<v>> : v \in 0..MaxVal}

LongRows(columns) ==
  [record_id : 1..MaxPid, redcap_event_name : EventNames, vals : [columns -> Cells]]

\* record identifiers are opaque: the checked tables number the
\* participants in the order of their first row
NumberedInOrder(rows) ==
  \A i \in 1..Len(rows) :
     \A p \in 1..(rows[i].record_id - 1) : \E j \in 1..(i - 1) : rows[j].record_id = p

\* step 1: the file is read, and the counts of the extract are printed
ReadMessages(d) ==
  << Msg("Original rows", Len(d.rows)),
     Msg("Unique participants", Len(UniqueIds(d))),
     Msg("Rows with _r timepoints",
         Cardinality({i \in 1..Len(d.rows) : ContainsR(d.rows[i].redcap_event_name)})) >>

Init ==
  /\ \E var \in InputVars : \E n \in 1..MaxRows :
        \E rows \in [1..n -> LongRows({var})] :
           /\ NumberedInOrder(rows)
           /\ df = [columns |-> {var}, rows |-> rows]
  /\ pc = "read"
  /\ df_rescheduled = <<>>
  /\ df_participants = <<>>
  /\ df_time_varying = NoFrame
  /\ df_wide = NoWide
  /\ pivot_path = "none"
  /\ df_outcomes = <<>>
  /\ df_scale_summary = <<>>
  /\ report = NoReport
  /\ printed = ReadMessages(df)

CountTrue(s, P(_)) == Cardinality({k \in 1..Len(s) : P(s[k])})

\* step 2
DetermineDosingRescheduled ==
  /\ pc = "read"
  /\ df_rescheduled' = determine_dosing_rescheduled(df)
  /\ printed' = Append(printed,
        Msg("Participants with rescheduled dosing",
            CountTrue(df_rescheduled', LAMBDA r : r.dosing_rescheduled)))
  /\ pc' = "rescheduled"
  /\ UNCHANGED <<df, df_participants, df_time_varying, df_wide, pivot_path, df_outcomes,
                 df_scale_summary, report>>

\* step 3
ExtractParticipantInfo ==
  /\ pc = "rescheduled"
  /\ df_participants' = extract_participant_info(df, df_rescheduled)
  /\ printed' = printed \o
        << Msg("Total participants", Len(df_participants')),
           Msg("With baseline", CountTrue(df_participants', LAMBDA p : p.has_baseline)),
           Msg("Consent passed", CountTrue(df_participants', LAMBDA p : p.consent_passed)),
           Msg("Dosing rescheduled",
               CountTrue(df_participants', LAMBDA p : p.dosing_rescheduled)) >>
  /\ pc' = "participants"
  /\ UNCHANGED <<df, df_rescheduled, df_time_varying, df_wide, pivot_path, df_outcomes,
                 df_scale_summary, report>>

\* step 4
PivotTimeVarying ==
  /\ pc = "participants"
  /\ df_time_varying' = pivot_time_varying(df)
  /\ pivot_path' = PivotPath(df)
  /\ printed' = Append(printed, Msg("Pivoting time-varying variables...", 0))
  /\ pc' = "pivoted"
  /\ UNCHANGED <<df, df_rescheduled, df_participants, df_wide, df_outcomes, df_scale_summary, report>>

\* steps 5 and 6
MergeData ==
  /\ pc = "pivoted"
  /\ df_wide' = CollapseCheckboxes(merge_left(df_participants, df_time_varying))
  /\ printed' = Append(printed, Msg("Result rows", Len(df_wide'.rows)))
  /\ pc' = "merged"
  /\ UNCHANGED <<df, df_rescheduled, df_participants, df_time_varying, pivot_path,
                 df_outcomes, df_scale_summary, report>>

\* step 7
CalculateAllScores ==
  /\ pc = "merged"
  /\ df_wide' = calculate_all_scores(df_wide)
  /\ printed' = Append(printed, Msg("Computing scores for all timepoints...", 0))
  /\ pc' = "scored"
  /\ UNCHANGED <<df, df_rescheduled, df_participants, df_time_varying, pivot_path,
                 df_outcomes, df_scale_summary, report>>

Next ==
  \/ DetermineDosingRescheduled
  \/ ExtractParticipantInfo
  \/ PivotTimeVarying
  \/ MergeData
  \/ CalculateAllScores

Spec == Init /\ [][Next]_vars

(***************************************************************************)
(* Properties of the pivot and of the participant table                    *)
(***************************************************************************)
AfterPivot == {"pivoted", "merged", "scored"}

CanonicalTimepoints == {<<TIMEPOINT_ORDER[k]>> : k \in 1..Len(TIMEPOINT_ORDER)}

\* the rows of one participant that resolve to one canonical timepoint
CanonicalRows(record_id, tp) ==
  {i \in RowsOf(df, record_id) :
     /\ df.rows[i].redcap_event_name \in DOMAIN TIMEPOINT_MAP
     /\ <<TIMEPOINT_MAP[df.rows[i].redcap_event_name]>> = tp}

\* some participant has two or more rows at one canonical timepoint
DuplicateVisit ==
  \E id \in 1..MaxPid : \E tp \in CanonicalTimepoints :
     Cardinality(CanonicalRows(id, tp)) >= 2

\* The lines that every run prints (progress and counts).  A report of a
\* data-quality issue would be a printed line that is not one of these.
RoutineTexts ==
  {"Original rows", "Unique participants", "Rows with _r timepoints",
   "Participants with rescheduled dosing", "Total participants", "With baseline",
   "Consent passed", "Dosing rescheduled", "Pivoting time-varying variables...",
   "Result rows", "Computing scores for all timepoints..."}

IssueReported == \E k \in 1..Len(printed) : printed[k].msg \notin RoutineTexts

\* the pivot has a cell for the participant and canonical timepoint
HasCell(id, var, tp) ==
  /\ id \in df_time_varying.index
  /\ var \o <<tp[1]>> \in df_time_varying.columns

\* C1: when a participant has two or more rows that resolve to the same
\* canonical timepoint, the pivot never finishes with a merged cell for that
\* participant and timepoint without reporting the duplicate.
C1_DuplicateVisitIsSurfaced ==
  (pc \in AfterPivot /\ DuplicateVisit /\ time_varying(df) # {}) => IssueReported

\* the rows of a participant and canonical timepoint that supply a value
SupplyingRows(id, var, tp) ==
  {i \in CanonicalRows(id, tp) : notna(df.rows[i].vals[var])}

\* C2: for every participant, field and canonical timepoint for which
\* several input rows supply a value, the cell of the pivot is the value of
\* the first of those rows in input order.
C2_FirstNonNullWins ==
  pc \in AfterPivot =>
    \A id \in 1..MaxPid : \A var \in time_varying(df) : \A tp \in CanonicalTimepoints :
       LET s == SupplyingRows(id, var, tp)
       IN  Cardinality(s) >= 2 =>
             /\ HasCell(id, var, tp)
             /\ df_time_varying.data[id][var \o <<tp[1]>>]
                  = df.rows[CHOOSE i \in s : \A j \in s : i <= j].vals[var]

\* two rows of one participant and timepoint supply different values
C2_Witness ==
  /\ pc = "pivoted"
  /\ pivot_path = "groupby_first"
  /\ \E id \in 1..MaxPid : \E var \in time_varying(df) : \E tp \in CanonicalTimepoints :
        \E i, j \in SupplyingRows(id, var, tp) :
           /\ i < j
           /\ df.rows[i].vals[var] # df.rows[j].vals[var]
           /\ df.rows[i].redcap_event_name # df.rows[j].redcap_event_name

\* the spellings of the visit labels: 'timepoint_{k}_arm_1' and
\* 'timepoint_{k}_r_arm_1'
StandardLabel(k) == <<"timepoint", ItemStr[k], "arm", "1">>

RescheduledLabel(k) == <<"timepoint", ItemStr[k], "r", "arm", "1">>

\* C3: every recognized visit label maps to one canonical timepoint of
\* t1..t6; for each k in 2..6 the standard and the rescheduled label of
\* timepoint k both map to tk; timepoint 1 has a standard label only.  The
\* timepoint that the pivot attaches to a row is the one of the table.
C3_LabelsResolveToOneTimepoint ==
  /\ \A e \in DOMAIN TIMEPOINT_MAP : TIMEPOINT_MAP[e] \in Range(TIMEPOINT_ORDER)
  /\ DOMAIN TIMEPOINT_MAP =
       {StandardLabel(k) : k \in 1..6} \cup {RescheduledLabel(k) : k \in 2..6}
  /\ \A k \in 1..6 : TIMEPOINT_MAP[StandardLabel(k)] = TIMEPOINT_ORDER[k]
  /\ \A k \in 2..6 : TIMEPOINT_MAP[RescheduledLabel(k)] = TIMEPOINT_ORDER[k]
  /\ pc \in AfterPivot =>
       \A i \in 1..Len(df.rows) : \A k \in 1..6 :
          df.rows[i].redcap_event_name \in {StandardLabel(k), RescheduledLabel(k)} \ {RescheduledLabel(1)}
            => /\ Timepoint(df.rows[i].redcap_event_name) = <<TIMEPOINT_ORDER[k]>>
               /\ \A var \in time_varying(df) :
                     var \o <<TIMEPOINT_ORDER[k]>> \in df_time_varying.columns

\* one participant has the standard label of a timepoint and another the
\* rescheduled label of the same timepoint
C3_Witness ==
  /\ pc = "pivoted"
  /\ time_varying(df) # {}
  /\ \E i, j \in 1..Len(df.rows) :
        /\ df.rows[i].redcap_event_name = StandardLabel(3)
        /\ df.rows[j].redcap_event_name = RescheduledLabel(3)
        /\ df.rows[i].record_id # df.rows[j].record_id

\* the qualifier of a column of the wide table: its last token
Qualifier(c) == c[Len(c)]

\* C4: data of a rescheduled-variant row is written into the columns of the
\* canonical timepoint: no column is qualified by anything but t1..t6 (or
\* the NaN label), the value of a rescheduled row for timepoint k is in the
\* *_tk column, and the labels [timepoint_1_arm_1, timepoint_3_r_arm_1] give
\* the rescheduled flag and the canonical timepoints t1, t3.
C4_RescheduledRowsUseCanonicalColumns ==
  pc \in {"merged", "scored"} =>
    /\ \A c \in df_wide.columns : Qualifier(c) \in Range(TIMEPOINT_ORDER) \cup {"nan"}
    /\ \A n \in 1..Len(df_wide.rows) :
         LET info == df_wide.rows[n].info
             id   == info.record_id
         IN  /\ \A i \in RowsOf(df, id) : \A k \in 2..6 : \A var \in time_varying(df) :
                   (/\ df.rows[i].redcap_event_name = RescheduledLabel(k)
                    /\ CanonicalRows(id, <<TIMEPOINT_ORDER[k]>>) = {i})
                   => /\ var \o <<TIMEPOINT_ORDER[k]>> \in df_wide.columns
                      /\ df_wide.rows[n].cells[var \o <<TIMEPOINT_ORDER[k]>>]
                           = df.rows[i].vals[var]
             /\ info.events_original = <<StandardLabel(1), RescheduledLabel(3)>>
                   => /\ info.dosing_rescheduled
                      /\ info.timepoints = << <<"t1">>, <<"t3">> >>

\* the scenario of the claim, with a value in the rescheduled row
C4_Witness ==
  /\ pc = "merged"
  /\ \E n \in 1..Len(df_wide.rows) : \E var \in time_varying(df) :
        /\ df_wide.rows[n].info.events_original = <<StandardLabel(1), RescheduledLabel(3)>>
        /\ df_wide.rows[n].info.dosing_rescheduled
        /\ notna(df_wide.rows[n].cells[var \o <<"t3">>])

\* the distinct participant identifiers of the input
InputIds == {df.rows[i].record_id : i \in 1..Len(df.rows)}

\* a table has exactly one row for each identifier of the input
OneRowPerParticipant(ids) ==
  /\ Len(ids) = Cardinality(InputIds)
  /\ Range(ids) = InputIds

\* C7: the participant table and the primary table have exactly one row for
\* every distinct participant identifier of the input, after identity
\* extraction, after the merge with the pivot and after scoring; a
\* participant with no baseline row is kept, with status no_baseline.
C7_OneRowPerParticipant ==
  /\ pc \in {"participants", "pivoted", "merged", "scored"} =>
       /\ OneRowPerParticipant([k \in 1..Len(df_participants) |->
                                  df_participants[k].record_id])
       /\ \A k \in 1..Len(df_participants) :
             RowsOf(df, df_participants[k].record_id) # {}
             /\ (\A i \in RowsOf(df, df_participants[k].record_id) :
                    df.rows[i].redcap_event_name # BASELINE_EVENT)
             => df_participants[k].consent_status = "no_baseline"
  /\ pc \in AfterPivot => df_time_varying.index \subseteq InputIds
  /\ pc \in {"merged", "scored"} =>
       /\ OneRowPerParticipant([k \in 1..Len(df_wide.rows) |->
                                  df_wide.rows[k].info.record_id])
       /\ \A k \in 1..Len(df_wide.rows) :
             ~df_wide.rows[k].info.has_baseline
             => df_wide.rows[k].info.consent_status = "no_baseline"

\* a participant without baseline row, none of whose rows the pivot keeps,
\* is in the scored table
C7_Witness ==
  /\ pc = "scored"
  /\ time_varying(df) # {}
  /\ \E k \in 1..Len(df_wide.rows) :
        /\ ~df_wide.rows[k].info.has_baseline
        /\ df_wide.rows[k].info.record_id \notin df_time_varying.index

\* the (participant, canonical timepoint, field, value) entries of the input
InputValues ==
  {<<df.rows[i].record_id, Timepoint(df.rows[i].redcap_event_name)[1], var,
     df.rows[i].vals[var][1]>> :
     <<i, var>> \in {x \in (1..Len(df.rows)) \X time_varying(df) :
                       /\ Timepoint(df.rows[x[1]].redcap_event_name) # NA
                       /\ notna(df.rows[x[1]].vals[x[2]])}}

\* re-expanding the wide table by timepoint: the non-empty cells of the
\* columns '{field}_{tp}', tp in t1..t6
WideValues ==
  {<<x[1], Qualifier(x[2]), SubSeq(x[2], 1, Len(x[2]) - 1),
     df_time_varying.data[x[1]][x[2]][1]>> :
     x \in {y \in df_time_varying.index \X df_time_varying.columns :
              /\ Qualifier(y[2]) \in Range(TIMEPOINT_ORDER)
              /\ notna(df_time_varying.data[y[1]][y[2]])}}

\* C8: for an input in which no participant has two rows at one canonical
\* timepoint, re-expanding the pivot by timepoint gives exactly the
\* (participant, canonical timepoint, field) entries that have a value in
\* the input, with that value: no value is invented and none is dropped.
C8_PivotRoundTrip ==
  (pc \in AfterPivot /\ ~DuplicateVisit) => WideValues = InputValues

\* two participants with values at different timepoints: each has an empty
\* cell at the timepoint of the other
C8_Witness ==
  /\ pc = "pivoted"
  /\ ~DuplicateVisit
  /\ Cardinality(InputValues) = 2
  /\ \E id \in df_time_varying.index : \E c \in df_time_varying.columns :
        /\ Qualifier(c) \in Range(TIMEPOINT_ORDER)
        /\ isna(df_time_varying.data[id][c])
        /\ \E other \in df_time_varying.index : notna(df_time_varying.data[other][c])

\* a rescheduled-variant spelling of a timepoint: 'timepoint_{k}_r_arm_1'
RescheduledSpelling(event) == \E k \in 1..6 : event = RescheduledLabel(k)

\* C9: the rescheduled flag of a participant is true if and only if at
\* least one of the participant's raw visit labels is a rescheduled-variant
\* spelling of some timepoint.
C9_RescheduledFlagIffRescheduledLabel ==
  pc \in {"participants", "pivoted", "merged", "scored"} =>
    \A k \in 1..Len(df_participants) :
       df_participants[k].dosing_rescheduled
         <=> \E i \in RowsOf(df, df_participants[k].record_id) :
                RescheduledSpelling(df.rows[i].redcap_event_name)

\* the rows whose visit label is not a key of the mapping table
UnrecognizedRows ==
  {i \in 1..Len(df.rows) : df.rows[i].redcap_event_name \notin DOMAIN TIMEPOINT_MAP}

\* C10: a row whose visit label is not in the mapping table is reported as
\* a data-quality issue and is excluded from the pivot: it contributes no
\* output column and no cell; the run completes.
C10_UnrecognizedLabelReportedAndExcluded ==
  (pc \in AfterPivot /\ UnrecognizedRows # {} /\ time_varying(df) # {}) =>
    /\ IssueReported
    /\ \A c \in df_time_varying.columns : Qualifier(c) \in Range(TIMEPOINT_ORDER)
    /\ \A id \in df_time_varying.index :
          \E i \in RowsOf(df, id) : i \notin UnrecognizedRows

(***************************************************************************)
(* calculate_all_scores on the wide table of one participant: the item     *)
(* columns of one instrument at one timepoint                              *)
(***************************************************************************)
MaxMissing == 1

\* the item columns that the scoring of q at tp reads
ScoredItems(q, tp) ==
  IF q.key = <<"audit", "full">>
  THEN ItemNames(<<"auditc">>, 1, 3, tp) \o ItemNames(<<"audit">>, 4, 10, tp)
  ELSE ItemNames(q.key, 1, q.items, tp)

\* the column that holds the total of q at tp
TotalColumn(q, tp) == q.key \o <<"total", tp>>

\* a '{q_key}_total' column of the input is pivoted like an item column
InputCanSupplyTotal(q) == q.key \o <<"total">> \in TimeVaryingCandidates

\* the timepoints of the checked tables: for every instrument at least one
\* is in its 'timepoints' list, and for all but five one is not
ScoredTimepoints == {"t1", "t2", "t3"}

\* the input columns of the items that the scoring of q reads
InputItems(q) ==
  [i \in 1..Len(ScoredItems(q, "t1")) |->
     SubSeq(ScoredItems(q, "t1")[i], 1, Len(ScoredItems(q, "t1")[i]) - 1)]

\* The input table of one participant with one visit at tp: all item columns
\* of q, or all but the last; the items at odd positions have the value
\* base and those at even positions the value alt, except the items of
\* missing, which are null; supplied says whether the input has a
\* '{key}_total' column (absent, or holding the value total_range[1]).
LongTable(q, tp, last_absent, base, alt, missing, supplied) ==
  LET items == InputItems(q)
      kept  == IF last_absent THEN SubSeq(items, 1, Len(items) - 1) ELSE items
      total == q.key \o <<"total">>
      cols  == Range(kept) \cup (IF supplied = "absent" THEN {} ELSE {total})
  IN  [columns |-> cols,
       rows |-> << [record_id |-> 1,
                    redcap_event_name |-> <<"timepoint", ItemStr[TpNum(tp)], "arm", "1">>,
                    vals |-> [c \in cols |->
                       IF c = total
                       THEN <<q.total_range[2]>>
                       ELSE LET i == CHOOSE j \in 1..Len(kept) : kept[j] = c
                            IN  IF i \in missing THEN NA
                                ELSE IF i % 2 = 1 THEN <<base>> ELSE <<alt>>]] >>]

\* the items that may have no value: the first, the middle and the last
MissingPositions(q) == {1, (q.items + 1) \div 2, q.items}

InitScore ==
  /\ \E k \in 1..Len(QUESTIONNAIRES) : \E tp \in ScoredTimepoints :
        \E last_absent \in BOOLEAN : \E missing \in SUBSET MissingPositions(QUESTIONNAIRES[k]) :
           \E base, alt \in {QUESTIONNAIRES[k].item_range[1], QUESTIONNAIRES[k].item_range[2]} :
              \E supplied \in {"absent", "value"} :
                 /\ supplied # "absent" => InputCanSupplyTotal(QUESTIONNAIRES[k])
                 /\ Cardinality(missing) <= MaxMissing
                 /\ df = LongTable(QUESTIONNAIRES[k], tp, last_absent, base, alt,
                                   missing, supplied)
  /\ pc = "read"
  /\ df_rescheduled = <<>>
  /\ df_participants = <<>>
  /\ df_time_varying = NoFrame
  /\ df_wide = NoWide
  /\ pivot_path = "none"
  /\ df_outcomes = <<>>
  /\ df_scale_summary = <<>>
  /\ report = NoReport
  /\ printed = ReadMessages(df)

SpecScore == InitScore /\ [][Next]_vars

\* the instruments scored by sum, mean or sum-times-4
CompleteCaseScored(q) == q.scoring \in {"sum", "mean", "sum_x4"}

\* some item of q at tp has no value in the row: its column is absent from
\* the table or its cell is null
ItemMissing(w, row, q, tp) ==
  \E i \in 1..Len(ScoredItems(q, tp)) :
     \/ ScoredItems(q, tp)[i] \notin w.columns
     \/ isna(row[ScoredItems(q, tp)[i]])

TotalDefined(w, row, q, tp) ==
  /\ TotalColumn(q, tp) \in w.columns
  /\ notna(row[TotalColumn(q, tp)])

\* C5: for every instrument scored by sum, mean or sum-times-4,
\* every participant and valid timepoint, the total is undefined whenever
\* at least one of the N item values is missing.
C5_TotalUndefinedIfItemMissing ==
  pc = "scored" =>
    \A n \in 1..Len(df_wide.rows) : \A k \in 1..Len(QUESTIONNAIRES) :
       \A tp \in Range(TIMEPOINT_ORDER) :
          (/\ CompleteCaseScored(QUESTIONNAIRES[k])
           /\ TpNum(tp) \in QUESTIONNAIRES[k].timepoints
           /\ ItemMissing(df_wide, df_wide.rows[n].cells, QUESTIONNAIRES[k], tp))
          => ~TotalDefined(df_wide, df_wide.rows[n].cells, QUESTIONNAIRES[k], tp)

\* What calculate_all_scores does guarantee: when the table has all N item
\* columns, the total is undefined whenever an item value is missing; when
\* an item column is absent it writes no total, and a total column of the
\* table is the '{key}_total' column of the input, as the pivot left it.
ComputedTotalsAreCompleteCase ==
  pc = "scored" =>
    \A n \in 1..Len(df_wide.rows) : \A k \in 1..Len(QUESTIONNAIRES) :
       \A tp \in Range(TIMEPOINT_ORDER) :
          LET q   == QUESTIONNAIRES[k]
              row == df_wide.rows[n].cells
              id  == df_wide.rows[n].info.record_id
          IN  (/\ CompleteCaseScored(q)
               /\ TpNum(tp) \in q.timepoints
               /\ ItemMissing(df_wide, row, q, tp))
              => IF AllIn(ScoredItems(q, tp), df_wide.columns)
                 THEN ~TotalDefined(df_wide, row, q, tp)
                 ELSE TotalColumn(q, tp) \in df_wide.columns
                        => /\ TotalColumn(q, tp) \in df_time_varying.columns
                           /\ id \in df_time_varying.index
                           /\ row[TotalColumn(q, tp)]
                                = df_time_varying.data[id][TotalColumn(q, tp)]

(***************************************************************************)
(* extract_participant_info on the rows of one participant, with the       *)
(* consent fields of the baseline form                                     *)
(***************************************************************************)
MaxNameLen == 1

CONSENT_AGE == <<"consent", "age">>

CONSENT_PSILOCYBIN == <<"consent", "psilocybintherapy">>

ConsentColumns == {CONSENT_AGE, CONSENT_PSILOCYBIN} \cup Range(NAME_FIELDS)

\* the column sets of the checked tables: all consent columns, or all but one
ConsentColumnSets == {ConsentColumns} \cup {ConsentColumns \ {c} : c \in ConsentColumns}

\* yes / no fields are exported as 1 / 0
YesNoCells == {NA, <<0>>, <<1>>}

\* text of at most MaxNameLen characters, blank or not
NameTexts == UNION {[1..n -> {" ", "a", "b"}] : n \in 0..MaxNameLen}

NameCells == {NA} \cup {<<s>> : s \in NameTexts}

ConsentRow(columns, event, age, psilocybin, n1, n2, n3) ==
  [record_id |-> 1, redcap_event_name |-> event,
   vals |-> [c \in columns |->
               IF c = CONSENT_AGE THEN age
               ELSE IF c = CONSENT_PSILOCYBIN THEN psilocybin
               ELSE IF c = NAME_FIELDS[1] THEN n1
               ELSE IF c = NAME_FIELDS[2] THEN n2
               ELSE n3]]

InitConsent ==
  /\ \E columns \in ConsentColumnSets :
        \E event \in {BASELINE_EVENT, <<"timepoint", "3", "arm", "1">>} :
           \E age, psilocybin \in YesNoCells : \E n1, n2, n3 \in NameCells :
              /\ CONSENT_AGE \notin columns => age = NA
              /\ CONSENT_PSILOCYBIN \notin columns => psilocybin = NA
              /\ NAME_FIELDS[1] \notin columns => n1 = NA
              /\ NAME_FIELDS[2] \notin columns => n2 = NA
              /\ NAME_FIELDS[3] \notin columns => n3 = NA
              /\ df = [columns |-> columns,
                       rows |-> <<ConsentRow(columns, event, age, psilocybin, n1, n2, n3)>>]
  /\ pc = "read"
  /\ df_rescheduled = <<>>
  /\ df_participants = <<>>
  /\ df_time_varying = NoFrame
  /\ df_wide = NoWide
  /\ pivot_path = "none"
  /\ df_outcomes = <<>>
  /\ df_scale_summary = <<>>
  /\ report = NoReport
  /\ printed = ReadMessages(df)

SpecConsent == InitConsent /\ [][Next]_vars

STATUSES ==
  {"no_baseline", "incomplete", "failed_age_check", "failed_psilocybin_check",
   "eligible_but_incomplete", "passed"}

\* the value of a baseline field: null when the table has no such column
Field(row, c) == IF c \in df.columns THEN row.vals[c] ELSE NA

\* a name field is blank: null, empty or white space only
BlankName(row, c) ==
  \/ isna(Field(row, c))
  \/ \A i \in 1..Len(Field(row, c)[1]) : Field(row, c)[1][i] = " "

AllNamesBlank(row) == \A k \in 1..Len(NAME_FIELDS) : BlankName(row, NAME_FIELDS[k])

\* C6: consent status is a total function of the baseline row, with values
\* in the six statuses, decided in the order: missing baseline, missing age
\* field, failed age, missing psilocybin field, failed psilocybin, name
\* present or absent; baseline with both fields affirmative and all three
\* names blank gives eligible_but_incomplete.
C6_ConsentStatusPriority ==
  pc \in {"participants", "pivoted", "merged", "scored"} =>
    \A k \in 1..Len(df_participants) :
       LET p    == df_participants[k]
           base == {i \in RowsOf(df, p.record_id) :
                      df.rows[i].redcap_event_name = StandardLabel(1)}
           b    == df.rows[CHOOSE i \in base : \A j \in base : i <= j]
           age  == Field(b, CONSENT_AGE)
           psi  == Field(b, CONSENT_PSILOCYBIN)
       IN  /\ p.consent_status \in STATUSES
           /\ base = {} => p.consent_status = "no_baseline"
           /\ base # {} =>
                /\ isna(age) => p.consent_status = "incomplete"
                /\ age = <<0>> => p.consent_status = "failed_age_check"
                /\ (notna(age) /\ age # <<0>>) =>
                     /\ isna(psi) => p.consent_status = "incomplete"
                     /\ psi = <<0>> => p.consent_status = "failed_psilocybin_check"
                     /\ (notna(psi) /\ psi # <<0>>) =>
                          /\ AllNamesBlank(b) => p.consent_status = "eligible_but_incomplete"
                          /\ ~AllNamesBlank(b) => p.consent_status = "passed"
                /\ (age = <<1>> /\ psi = <<1>> /\ AllNamesBlank(b))
                     => p.consent_status = "eligible_but_incomplete"

\* the age check failed although the psilocybin field is missing
C6_Witness ==
  /\ pc = "participants"
  /\ CONSENT_AGE \in df.columns
  /\ \E k \in 1..Len(df_participants) : \E i \in RowsOf(df, df_participants[k].record_id) :
        /\ df.rows[i].redcap_event_name = StandardLabel(1)
        /\ df.rows[i].vals[CONSENT_AGE] = <<0>>
        /\ isna(Field(df.rows[i], CONSENT_PSILOCYBIN))
        /\ df_participants[k].consent_status = "failed_age_check"

(***************************************************************************)
(* The totals that calculate_all_scores writes                             *)
(***************************************************************************)
\* every item of q at tp is a column of w and has a value in the row
AllItemsPresent(w, row, q, tp) ==
  /\ AllIn(ScoredItems(q, tp), w.columns)
  /\ \A i \in 1..Len(ScoredItems(q, tp)) : notna(row[ScoredItems(q, tp)[i]])

\* the item values of q at tp, in item order
ItemValues(row, q, tp) ==
  [i \in 1..Len(ScoredItems(q, tp)) |-> row[ScoredItems(q, tp)[i]][1]]

ItemsInRange(row, q, tp) ==
  \A i \in 1..Len(ScoredItems(q, tp)) :
     /\ ItemValues(row, q, tp)[i] >= q.item_range[1]
     /\ ItemValues(row, q, tp)[i] <= q.item_range[2]

\* the sum of the values of a sequence, added from the last to the first
RECURSIVE AddUp(_, _)
AddUp(s, n) == IF n = 0 THEN 0 ELSE AddUp(s, n - 1) + s[n]

\* C11: for every instrument with scoring rule sum, when all N item values
\* are present the total equals their arithmetic sum, and when every item
\* value lies in the declared item range the total lies in the declared
\* total range.
C11_SumTotalIsSumAndInRange ==
  pc = "scored" =>
    \A n \in 1..Len(df_wide.rows) : \A k \in 1..Len(QUESTIONNAIRES) :
       \A tp \in Range(TIMEPOINT_ORDER) :
          LET q   == QUESTIONNAIRES[k]
              row == df_wide.rows[n].cells
          IN  (/\ q.scoring = "sum"
               /\ TpNum(tp) \in q.timepoints
               /\ AllItemsPresent(df_wide, row, q, tp))
              => /\ TotalDefined(df_wide, row, q, tp)
                 /\ row[TotalColumn(q, tp)][1]
                      = AddUp(ItemValues(row, q, tp), Len(ScoredItems(q, tp)))
                 /\ ItemsInRange(row, q, tp)
                      => /\ row[TotalColumn(q, tp)][1] >= q.total_range[1]
                         /\ row[TotalColumn(q, tp)][1] <= q.total_range[2]

\* a sum instrument with all items present, not all equal, whose total was
\* computed over an input total of another value
C11_Witness ==
  /\ pc = "scored"
  /\ \E k \in 1..Len(QUESTIONNAIRES) : \E tp \in Range(TIMEPOINT_ORDER) :
        LET q   == QUESTIONNAIRES[k]
            row == df_wide.rows[1].cells
        IN  /\ q.scoring = "sum"
            /\ TpNum(tp) \in q.timepoints
            /\ AllItemsPresent(df_wide, row, q, tp)
            /\ \E i, j \in 1..Len(ScoredItems(q, tp)) :
                  ItemValues(row, q, tp)[i] # ItemValues(row, q, tp)[j]
            /\ TotalColumn(q, tp) \in df_time_varying.columns
            /\ df_time_varying.data[1][TotalColumn(q, tp)] # row[TotalColumn(q, tp)]
            /\ notna(row[TotalColumn(q, tp)])

(***************************************************************************)
(* calc_mean on the rows of the mean-scored instrument.  The numbers of    *)
(* this specification are in tenths (the cell <<37>> is the value 3.7):    *)
(* the items of meq4 come with one decimal place.                          *)
(***************************************************************************)
Tenth == 10

\* item values of meq4 in tenths, within item_range (0, 5)
TenthValues == {0, 1, 25, 36, 37, 50}

MeanInstruments ==
  {k \in 1..Len(QUESTIONNAIRES) : QUESTIONNAIRES[k].scoring = "mean"}

\* the merged table of one participant that has the items of q at tp
MeanTable(q, tp, values) ==
  LET items == ItemNames(q.key, 1, q.items, tp)
  IN  [columns |-> Range(items),
       rows |-> << [info |-> [record_id |-> 1],
                    cells |-> [c \in Range(items) |->
                                 values[CHOOSE i \in 1..Len(items) : items[i] = c]]] >>]

InitMean ==
  /\ \E k \in MeanInstruments : \E t \in QUESTIONNAIRES[k].timepoints :
        \E values \in [1..QUESTIONNAIRES[k].items -> {NA} \cup {<<v>> : v \in TenthValues}] :
           df_wide = MeanTable(QUESTIONNAIRES[k], TIMEPOINT_ORDER[t], values)
  /\ pc = "mean_items"
  /\ df = [columns |-> {}, rows |-> <<>>]
  /\ df_rescheduled = <<>>
  /\ df_participants = <<>>
  /\ df_time_varying = NoFrame
  /\ pivot_path = "none"
  /\ df_outcomes = <<>>
  /\ df_scale_summary = <<>>
  /\ report = NoReport
  /\ printed = <<>>

\* df[f'{q_key}_total_{tp}'] = df.apply(lambda row: calc_mean(row, items), axis=1)
ScoreMean ==
  /\ pc = "mean_items"
  /\ \E k \in MeanInstruments : \E t \in QUESTIONNAIRES[k].timepoints :
        LET q  == QUESTIONNAIRES[k]
            tp == TIMEPOINT_ORDER[t]
        IN  /\ AllIn(ItemNames(q.key, 1, q.items, tp), df_wide.columns)
            /\ df_wide' = AddColumn(df_wide, TotalColumn(q, tp),
                                    LAMBDA row : calc_mean(row, ItemNames(q.key, 1, q.items, tp)))
  /\ pc' = "mean_scored"
  /\ UNCHANGED <<df, df_rescheduled, df_participants, df_time_varying, pivot_path, printed,
                 df_outcomes, df_scale_summary, report>>

NextMean == ScoreMean

SpecMean == InitMean /\ [][NextMean]_vars

\* round(): n / d rounded to the nearest whole number, ties to the even one
RoundHalfEven(n, d) ==
  LET q == n \div d
      r == n % d
  IN  IF 2 * r < d THEN q
      ELSE IF 2 * r > d THEN q + 1
      ELSE IF q % 2 = 0 THEN q ELSE q + 1

\* the value of a mean (a fraction of tenths) in hundredths, rounded
RoundedHundredths(f) == RoundHalfEven(100 * f.num, Tenth * f.den)

MeanRows ==
  {x \in (1..Len(df_wide.rows)) \X MeanInstruments \X Range(TIMEPOINT_ORDER) :
     /\ TpNum(x[3]) \in QUESTIONNAIRES[x[2]].timepoints
     /\ AllItemsPresent(df_wide, df_wide.rows[x[1]].cells, QUESTIONNAIRES[x[2]], x[3])}

\* C12: for every instrument with scoring rule mean, when all N items are
\* present the total is the arithmetic mean of the items rounded to 2
\* decimal places.
C12_MeanRoundedToTwoPlaces ==
  pc = "mean_scored" =>
    \A x \in MeanRows :
       LET row   == df_wide.rows[x[1]].cells
           total == row[TotalColumn(QUESTIONNAIRES[x[2]], x[3])]
       IN  /\ notna(total)
           /\ 100 * total[1].num = RoundedHundredths(total[1]) * Tenth * total[1].den

\* C12 amended: when all N items are present the total is the arithmetic
\* mean of the items, sum / N, with no rounding.
C12_MeanIsExactQuotient ==
  pc = "mean_scored" =>
    \A x \in MeanRows :
       LET q     == QUESTIONNAIRES[x[2]]
           row   == df_wide.rows[x[1]].cells
           total == row[TotalColumn(q, x[3])]
       IN  /\ notna(total)
           /\ total[1].num * q.items
                = AddUp(ItemValues(row, q, x[3]), q.items) * total[1].den

\* a mean with more than 2 decimal places: 3.7, 3.6, 3.6, 3.6 gives 3.625
C12_Witness ==
  /\ pc = "mean_scored"
  /\ \E x \in MeanRows :
        LET row   == df_wide.rows[x[1]].cells
            total == row[TotalColumn(QUESTIONNAIRES[x[2]], x[3])]
        IN  /\ notna(total)
            /\ 1000 * total[1].num = 3625 * Tenth * total[1].den

SumTimes4Instruments ==
  {k \in 1..Len(QUESTIONNAIRES) : QUESTIONNAIRES[k].scoring = "sum_x4"}

\* C13: for the sum-times-4 instrument (WHO-5), the total is 4 times the raw
\* sum of its 5 items when all are present and undefined otherwise, so
\* in-range items (0 to 5) give a total in 0 to 100.
C13_Who5TotalIsFourTimesSum ==
  pc = "scored" =>
    \A n \in 1..Len(df_wide.rows) : \A k \in SumTimes4Instruments :
       \A tp \in Range(TIMEPOINT_ORDER) :
          LET q   == QUESTIONNAIRES[k]
              row == df_wide.rows[n].cells
          IN  TpNum(tp) \in q.timepoints =>
                IF AllItemsPresent(df_wide, row, q, tp)
                THEN /\ q.key = <<"who5">> /\ q.items = 5
                     /\ TotalDefined(df_wide, row, q, tp)
                     /\ row[TotalColumn(q, tp)][1] = 4 * AddUp(ItemValues(row, q, tp), 5)
                     /\ ItemsInRange(row, q, tp)
                          => row[TotalColumn(q, tp)][1] \in 0..100
                ELSE ~TotalDefined(df_wide, row, q, tp)

\* What does hold for WHO-5: with all 5 items present the total is 4 times
\* their sum; with all 5 item columns and a missing value it is undefined.
Who5ComputedTotalIsFourTimesSum ==
  pc = "scored" =>
    \A n \in 1..Len(df_wide.rows) : \A k \in SumTimes4Instruments :
       \A tp \in Range(TIMEPOINT_ORDER) :
          LET q   == QUESTIONNAIRES[k]
              row == df_wide.rows[n].cells
          IN  (TpNum(tp) \in q.timepoints /\ AllIn(ScoredItems(q, tp), df_wide.columns)) =>
                IF AllItemsPresent(df_wide, row, q, tp)
                THEN /\ TotalDefined(df_wide, row, q, tp)
                     /\ row[TotalColumn(q, tp)][1] = 4 * AddUp(ItemValues(row, q, tp), 5)
                     /\ row[TotalColumn(q, tp)][1] \in 0..100
                ELSE ~TotalDefined(df_wide, row, q, tp)

(***************************************************************************)
(* The severity labels: the pipeline on one visit of one participant that  *)
(* carries either the total of PHQ-9 or GAD-7 or all of its items          *)
(***************************************************************************)
SeverityInstruments ==
  {k \in 1..Len(QUESTIONNAIRES) : QUESTIONNAIRES[k].key \in {<<"phq9">>, <<"gad7">>}}

SeverityTimepoints == {"t1", "t2", "t3"}

\* one row at tp with the column '{key}_total' holding total
TotalOnlyTable(q, tp, total) ==
  [columns |-> {q.key \o <<"total">>},
   rows |-> << [record_id |-> 1,
                redcap_event_name |-> <<"timepoint", ItemStr[TpNum(tp)], "arm", "1">>,
                vals |-> [c \in {q.key \o <<"total">>} |-> total]] >>]

InitSeverity ==
  /\ \E k \in SeverityInstruments : \E tp \in SeverityTimepoints :
        \/ \E total \in {NA} \cup {<<v>> : v \in QUESTIONNAIRES[k].total_range[1]
                                                 ..QUESTIONNAIRES[k].total_range[2]} :
              df = TotalOnlyTable(QUESTIONNAIRES[k], tp, total)
        \/ \E v \in QUESTIONNAIRES[k].item_range[1]..QUESTIONNAIRES[k].item_range[2] :
              df = LongTable(QUESTIONNAIRES[k], tp, FALSE, v, v, {}, "absent")
  /\ pc = "read"
  /\ df_rescheduled = <<>>
  /\ df_participants = <<>>
  /\ df_time_varying = NoFrame
  /\ df_wide = NoWide
  /\ pivot_path = "none"
  /\ df_outcomes = <<>>
  /\ df_scale_summary = <<>>
  /\ report = NoReport
  /\ printed = ReadMessages(df)

SpecSeverity == InitSeverity /\ [][Next]_vars

\* the tiers of 'interpretation': lowest total, highest total, label
PHQ9_TIERS ==
  << <<0, 4, "None-minimal">>, <<5, 9, "Mild">>, <<10, 14, "Moderate">>,
     <<15, 19, "Moderately severe">>, <<20, 27, "Severe">> >>

GAD7_TIERS ==
  << <<0, 4, "Minimal">>, <<5, 9, "Mild">>, <<10, 14, "Moderate">>, <<15, 21, "Severe">> >>

TiersOf(q) == IF q.key = <<"phq9">> THEN PHQ9_TIERS ELSE GAD7_TIERS

\* the tiers start at the lowest total, end at the highest, and each starts
\* right after the one before
TiersPartition(q) ==
  /\ TiersOf(q)[1][1] = q.total_range[1]
  /\ TiersOf(q)[Len(TiersOf(q))][2] = q.total_range[2]
  /\ \A i \in 1..Len(TiersOf(q)) : TiersOf(q)[i][1] <= TiersOf(q)[i][2]
  /\ \A i \in 1..(Len(TiersOf(q)) - 1) : TiersOf(q)[i + 1][1] = TiersOf(q)[i][2] + 1

SeverityColumn(q, tp) == q.key \o <<"severity", tp>>

\* C14: the PHQ-9 and GAD-7 severity label is a function of the total that
\* assigns every integer total of the declared total range to exactly one
\* tier, tiers being contiguous, non-overlapping and ordered by score, and
\* gives an undefined label for an undefined total; a baseline PHQ-9 with
\* all 9 items equal to 1 gives total 9 and the mild tier (5 to 9).
C14_SeverityTiers ==
  pc = "scored" =>
    \A n \in 1..Len(df_wide.rows) : \A k \in SeverityInstruments :
       \A tp \in Range(TIMEPOINT_ORDER) :
          LET q     == QUESTIONNAIRES[k]
              row   == df_wide.rows[n].cells
              total == row[TotalColumn(q, tp)]
              label == row[SeverityColumn(q, tp)]
              tiers == {i \in 1..Len(TiersOf(q)) :
                          /\ notna(total)
                          /\ TiersOf(q)[i][1] <= total[1]
                          /\ total[1] <= TiersOf(q)[i][2]}
          IN  /\ TiersPartition(q)
              /\ TotalColumn(q, tp) \in df_wide.columns =>
                   /\ SeverityColumn(q, tp) \in df_wide.columns
                   /\ isna(total) => isna(label)
                   /\ (notna(total) /\ total[1] \in q.total_range[1]..q.total_range[2]) =>
                        /\ Cardinality(tiers) = 1
                        /\ \A i \in tiers : label = <<TiersOf(q)[i][3]>>
              /\ (/\ q.key = <<"phq9">> /\ tp = "t1"
                  /\ AllItemsPresent(df_wide, row, q, tp)
                  /\ \A i \in 1..q.items : ItemValues(row, q, tp)[i] = 1) =>
                   /\ total = <<9>>
                   /\ label = <<"Mild">>

\* the baseline PHQ-9 with all 9 items equal to 1, scored and labelled
C14_Witness ==
  /\ pc = "scored"
  /\ \E k \in SeverityInstruments :
        LET q == QUESTIONNAIRES[k]
        IN  /\ q.key = <<"phq9">>
            /\ AllItemsPresent(df_wide, df_wide.rows[1].cells, q, "t1")
            /\ \A i \in 1..q.items : ItemValues(df_wide.rows[1].cells, q, "t1")[i] = 1
            /\ df_wide.rows[1].cells[SeverityColumn(q, "t1")] = <<"Mild">>

\* the columns of derived labels that calculate_all_scores writes for q at tp
LabelColumns(q, tp) ==
  IF q.key \in {<<"phq9">>, <<"gad7">>} THEN {SeverityColumn(q, tp)}
  ELSE IF q.key = <<"meq4">> THEN {<<"meq4", "mystical", tp>>}
  ELSE IF q.key = <<"audit", "full">> THEN {<<"audit", "version", tp>>}
  ELSE {}

\* C15: for every instrument and canonical timepoint that the registry does
\* not declare valid for that instrument, calculate_all_scores computes no
\* total and no derived label for that pair: the total column is as the
\* merge left it and there is no label column.
C15_InvalidTimepointNotScored ==
  pc = "scored" =>
    \A k \in 1..Len(QUESTIONNAIRES) : \A tp \in Range(TIMEPOINT_ORDER) :
       LET q == QUESTIONNAIRES[k]
       IN  TpNum(tp) \notin q.timepoints =>
             /\ TotalColumn(q, tp) \in df_wide.columns
                  <=> TotalColumn(q, tp) \in df_time_varying.columns
             /\ TotalColumn(q, tp) \in df_wide.columns =>
                  \A n \in 1..Len(df_wide.rows) :
                     LET id == df_wide.rows[n].info.record_id
                     IN  id \in df_time_varying.index =>
                           df_wide.rows[n].cells[TotalColumn(q, tp)]
                             = df_time_varying.data[id][TotalColumn(q, tp)]
             /\ LabelColumns(q, tp) \cap df_wide.columns = {}

\* the timepoint-qualified columns of q at tp: items, total or mean, labels
InstrumentColumns(q, tp) ==
  {c \o <<tp>> : c \in QuestionnaireColumns(q)}
    \cup {TotalColumn(q, tp)} \cup LabelColumns(q, tp)

AllLabelsRecognized ==
  \A i \in 1..Len(df.rows) : df.rows[i].redcap_event_name \in DOMAIN TIMEPOINT_MAP

\* C16: in the wide table, every timepoint-qualified column of an instrument
\* (item, total or label) carries a timepoint that the instrument's registry
\* entry declares valid; this holds after the pivot and after scoring, for
\* every input whose rows carry recognized labels.
C16_ColumnsCarryValidTimepoints ==
  AllLabelsRecognized =>
    \A k \in 1..Len(QUESTIONNAIRES) : \A tp \in Range(TIMEPOINT_ORDER) :
       TpNum(tp) \notin QUESTIONNAIRES[k].timepoints =>
         /\ pc \in {"pivoted", "merged", "scored"} =>
              InstrumentColumns(QUESTIONNAIRES[k], tp) \cap df_time_varying.columns = {}
         /\ pc \in {"merged", "scored"} =>
              InstrumentColumns(QUESTIONNAIRES[k], tp) \cap df_wide.columns = {}

\* C17: for every instrument of the registry, both ends of the declared
\* total range are reachable: the minimum and the maximum of the total range
\* are the values the scoring rule gives for N items all at the item minimum
\* and all at the item maximum.
C17_TotalRangeReachable ==
  pc = "scored" =>
    \A n \in 1..Len(df_wide.rows) : \A k \in 1..Len(QUESTIONNAIRES) :
       \A tp \in Range(TIMEPOINT_ORDER) : \A e \in {1, 2} :
          LET q   == QUESTIONNAIRES[k]
              row == df_wide.rows[n].cells
          IN  (/\ TpNum(tp) \in q.timepoints
               /\ TotalColumn(q, tp) \in df_wide.columns
               /\ AllItemsPresent(df_wide, row, q, tp)
               /\ \A i \in 1..Len(ScoredItems(q, tp)) :
                     ItemValues(row, q, tp)[i] = q.item_range[e])
              => IF q.scoring = "mean"
                 THEN /\ notna(row[TotalColumn(q, tp)])
                      /\ row[TotalColumn(q, tp)][1].num
                           = q.total_range[e] * row[TotalColumn(q, tp)][1].den
                 ELSE row[TotalColumn(q, tp)] = <<q.total_range[e]>>

(***************************************************************************)
(* The participant-level fields: the pipeline on tables that carry a       *)
(* demographic variable and a checkbox column on every row                 *)
(***************************************************************************)
MaxDemoRows == 2

AGE == <<"age">>

RACE_1 == CheckboxColumn(<<"race1">>, 1)

DemoColumnSets == {{AGE, RACE_1}, {AGE}}

DemoRows(columns) ==
  {[record_id |-> id, redcap_event_name |-> e, vals |-> v] :
     id \in 1..MaxPid,
     e \in {BASELINE_EVENT, <<"timepoint", "3", "arm", "1">>},
     v \in [columns -> YesNoCells]}

InitDemographics ==
  /\ \E columns \in DemoColumnSets : \E n \in 1..MaxDemoRows :
        \E rows \in [1..n -> DemoRows(columns)] :
           /\ NumberedInOrder(rows)
           /\ df = [columns |-> columns, rows |-> rows]
  /\ pc = "read"
  /\ df_rescheduled = <<>>
  /\ df_participants = <<>>
  /\ df_time_varying = NoFrame
  /\ df_wide = NoWide
  /\ pivot_path = "none"
  /\ df_outcomes = <<>>
  /\ df_scale_summary = <<>>
  /\ report = NoReport
  /\ printed = ReadMessages(df)

SpecDemographics == InitDemographics /\ [][Next]_vars

\* the rows of the input labelled as the baseline visit of a participant
BaselineOf(id) ==
  {i \in 1..Len(df.rows) :
     /\ df.rows[i].record_id = id
     /\ df.rows[i].redcap_event_name = StandardLabel(1)}

FirstBaseline(id) == df.rows[CHOOSE i \in BaselineOf(id) : \A j \in BaselineOf(id) : i <= j]

\* the participant-level fields equal those of the baseline row, and are
\* empty without baseline (null, or no such column in the table)
FieldsFromBaseline(p, fields) ==
  \A c \in fields \cap df.columns :
     IF BaselineOf(p.record_id) = {}
     THEN c \in DOMAIN p.demographics => isna(p.demographics[c])
     ELSE /\ c \in DOMAIN p.demographics
          /\ p.demographics[c] = FirstBaseline(p.record_id).vals[c]

\* the options of checkbox group k that the baseline row has selected
SelectedAtBaseline(id, k) ==
  {i \in 1..CHECKBOX_PREFIXES[k].n :
     /\ CheckboxColumn(CHECKBOX_PREFIXES[k].prefix, i) \in df.columns
     /\ BaselineOf(id) # {}
     /\ FirstBaseline(id).vals[CheckboxColumn(CHECKBOX_PREFIXES[k].prefix, i)] = <<1>>}

\* the collapsed value of group k lists the labels of those options
GroupFromBaseline(p, k) ==
  /\ CheckboxColumns(k) \cap DOMAIN p.demographics = {}
  /\ LET S == SelectedAtBaseline(p.record_id, k)
     IN  IF CHECKBOX_PREFIXES[k].prefix \notin DOMAIN p.demographics THEN S = {}
         ELSE LET v == p.demographics[CHECKBOX_PREFIXES[k].prefix]
              IN  IF S = {} THEN isna(v)
                  ELSE /\ notna(v)
                       /\ Len(v[1]) = Cardinality(S)
                       /\ \A i \in S : CheckboxLabels(k)[i] \in Range(v[1])

\* C18: the participant-level demographic and checkbox values of the output
\* equal the values of the participant's baseline row; values of those
\* fields on any non-baseline row never appear in, or change, the
\* participant-level output, and a participant without baseline has them
\* empty.  (In the merged table a checkbox group is one list of labels.)
C18_DemographicsFromBaselineOnly ==
  /\ pc \in {"participants", "pivoted"} =>
       \A k \in 1..Len(df_participants) :
          /\ DOMAIN df_participants[k].demographics \subseteq DEMO_FIELDS \cap df.columns
          /\ FieldsFromBaseline(df_participants[k], DEMO_FIELDS)
  /\ pc \in {"merged", "scored"} =>
       /\ Len(df_wide.rows) = Len(df_participants)
       /\ \A n \in 1..Len(df_wide.rows) :
             /\ FieldsFromBaseline(df_wide.rows[n].info, DEMO_VARS)
             /\ \A k \in 1..Len(CHECKBOX_PREFIXES) : GroupFromBaseline(df_wide.rows[n].info, k)

\* a participant whose follow-up row comes first and differs from the
\* baseline row in both fields; the output has the baseline's values
C18_Witness ==
  /\ pc = "scored"
  /\ RACE_1 \in df.columns
  /\ Len(df.rows) >= 2
  /\ df.rows[1].record_id = 1
  /\ df.rows[1].redcap_event_name # StandardLabel(1)
  /\ df.rows[2].record_id = 1
  /\ df.rows[2].redcap_event_name = StandardLabel(1)
  /\ df.rows[1].vals[AGE] = <<0>> /\ df.rows[2].vals[AGE] = <<1>>
  /\ df.rows[1].vals[RACE_1] = <<0>> /\ df.rows[2].vals[RACE_1] = <<1>>
  /\ df_wide.rows[1].info.demographics[AGE] = <<1>>
  /\ df_wide.rows[1].info.demographics[<<"race1">>] = <<<<"AI/AN">>>>

\* the name fields of a row whose value is present and not empty after
\* stripping white space, by position in NAME_FIELDS
NonBlankNames(row) == {k \in 1..Len(NAME_FIELDS) : ~BlankName(row, NAME_FIELDS[k])}

\* C19: the canonical name is the first value, in the order
\* consent_nameprint, consent_nameprint_v2, consent_nameprint_v3, that is
\* present and not empty after stripping whitespace; with both eligibility
\* checks passed, status is passed exactly when such a value exists and
\* eligible_but_incomplete otherwise (a whitespace-only name does not count).
C19_CanonicalNameIsFirstUsable ==
  pc \in {"participants", "pivoted", "merged", "scored"} =>
    \A k \in 1..Len(df_participants) :
       LET p == df_participants[k]
       IN  BaselineOf(p.record_id) # {} =>
             LET b == FirstBaseline(p.record_id)
                 U == NonBlankNames(b)
                 eligible == /\ notna(Field(b, CONSENT_AGE)) /\ Field(b, CONSENT_AGE) # <<0>>
                             /\ notna(Field(b, CONSENT_PSILOCYBIN))
                             /\ Field(b, CONSENT_PSILOCYBIN) # <<0>>
             IN  /\ U = {} => isna(p.consent_nameprint)
                 /\ U # {} => \E i \in U :
                                /\ \A j \in U : i <= j
                                /\ p.consent_nameprint = b.vals[NAME_FIELDS[i]]
                 /\ eligible => /\ p.consent_status = "passed" <=> U # {}
                                /\ p.consent_status = "eligible_but_incomplete" <=> U = {}

\* the first name field holds white space only and the next two hold
\* different names: the canonical name is the second one
C19_Witness ==
  /\ pc = "participants"
  /\ Range(NAME_FIELDS) \subseteq df.columns
  /\ BaselineOf(1) # {}
  /\ FirstBaseline(1).vals[NAME_FIELDS[1]] = << <<" ">> >>
  /\ FirstBaseline(1).vals[NAME_FIELDS[2]] = << <<"a">> >>
  /\ FirstBaseline(1).vals[NAME_FIELDS[3]] = << <<"b">> >>
  /\ df_participants[1].consent_nameprint = << <<"a">> >>
  /\ df_participants[1].consent_status = "passed"

(***************************************************************************)
(* ANALYTICAL TABS: create_improvement_analysis.  The means are in         *)
(* hundredths and the percentages in tenths of a percent, as round(x, 2)   *)
(* and round(x, 1) leave them.                                             *)
(***************************************************************************)
\* the rows of w with a value in column col, in row order
Observed(w, col) ==
  SelectSeq([n \in 1..Len(w.rows) |-> n], LAMBDA n : notna(w.rows[n].cells[col]))

\* the smallest and the largest value of a non-empty sequence
Min(vals) == CHOOSE v \in Range(vals) : \A u \in Range(vals) : v <= u

Max(vals) == CHOOSE v \in Range(vals) : \A u \in Range(vals) : v >= u

\* a row for every timepoint that has the column, without the test n > 0
create_scale_summary_zero_filled(w, scale_name) ==
  LET col(tp)  == scale_name \o <<tp>>
      vals(tp) == [k \in 1..Len(Observed(w, col(tp))) |->
                     w.rows[Observed(w, col(tp))[k]].cells[col(tp)][1]]
      entry(tp) ==
        IF vals(tp) = <<>>
        THEN [Timepoint |-> tp, N |-> 0, Mean |-> NA, Min |-> NA, Max |-> NA]
        ELSE [Timepoint |-> tp,
              N    |-> Len(vals(tp)),
              Mean |-> <<RoundHalfEven(100 * SumSeq(vals(tp)), Len(vals(tp)))>>,
              Min  |-> <<Min(vals(tp))>>,
              Max  |-> <<Max(vals(tp))>>]
      tps == SelectSeq(TIMEPOINT_ORDER, LAMBDA tp : col(tp) \in w.columns)
  IN  [k \in 1..Len(tps) |-> entry(tps[k])]

\* The rows of the summary of the column scale_name: Timepoint, N, Mean (in
\* hundredths, as round(x, 2) leaves it), Min and Max.  SD and Median are
\* further fields of the same rows and are not held in the model.
create_scale_summary(w, scale_name) ==
  LET col(tp)  == scale_name \o <<tp>>
      vals(tp) == [k \in 1..Len(Observed(w, col(tp))) |->
                     w.rows[Observed(w, col(tp))[k]].cells[col(tp)][1]]
      entry(tp) ==
        [Timepoint |-> tp,
         N    |-> Len(vals(tp)),
         Mean |-> <<RoundHalfEven(100 * SumSeq(vals(tp)), Len(vals(tp)))>>,
         Min  |-> <<Min(vals(tp))>>,
         Max  |-> <<Max(vals(tp))>>]
      tps == SelectSeq(TIMEPOINT_ORDER,
                LAMBDA tp : col(tp) \in w.columns /\ Len(vals(tp)) > 0)
  IN  [k \in 1..Len(tps) |-> entry(tps[k])]

\* the change taken as baseline minus follow-up
create_improvement_analysis_reversed(w, scale_name, higher_is_worse) ==
  LET baseline_col == scale_name \o <<"t1">>
      tp_col(tp)   == scale_name \o <<tp>>
      bl(n)        == w.rows[n].cells[baseline_col][1]
      fu(n, tp)    == w.rows[n].cells[tp_col(tp)][1]
      both(tp)     == SelectSeq([n \in 1..Len(w.rows) |-> n],
                         LAMBDA n : /\ notna(w.rows[n].cells[baseline_col])
                                    /\ notna(w.rows[n].cells[tp_col(tp)]))
      change(n, tp)    == bl(n) - fu(n, tp)
      responder(n, tp) == IF higher_is_worse
                          THEN 2 * change(n, tp) <= 0 - bl(n)
                          ELSE 2 * change(n, tp) >= bl(n)
      improved(n, tp)  == IF higher_is_worse THEN change(n, tp) < 0 ELSE change(n, tp) > 0
      entry(tp) ==
        LET paired == both(tp)
            N == Len(paired)
            improved_n  == Cardinality({k \in 1..N : improved(paired[k], tp)})
            responder_n == Cardinality({k \in 1..N : responder(paired[k], tp)})
        IN  [Comparison |-> <<"t1", tp>>,
             N_paired |-> N,
             Mean_baseline |-> RoundHalfEven(100 * SumSeq([k \in 1..N |-> bl(paired[k])]), N),
             Mean_followup |-> RoundHalfEven(100 * SumSeq([k \in 1..N |-> fu(paired[k], tp)]), N),
             Mean_change |-> RoundHalfEven(100 * SumSeq([k \in 1..N |-> change(paired[k], tp)]), N),
             Improved_N |-> improved_n,
             Improved_pct |-> RoundHalfEven(1000 * improved_n, N),
             Responders_N |-> responder_n,
             Responders_pct |-> RoundHalfEven(1000 * responder_n, N)]
      tps == SelectSeq(<<"t3", "t4", "t5", "t6">>,
                LAMBDA tp : tp_col(tp) \in w.columns /\ both(tp) # <<>>)
  IN  IF baseline_col \notin w.columns THEN <<>>
      ELSE [k \in 1..Len(tps) |-> entry(tps[k])]

create_improvement_analysis(w, scale_name, higher_is_worse) ==
  LET baseline_col == scale_name \o <<"t1">>
      tp_col(tp)   == scale_name \o <<tp>>
      bl(n)        == w.rows[n].cells[baseline_col][1]
      fu(n, tp)    == w.rows[n].cells[tp_col(tp)][1]
      both(tp)     == SelectSeq([n \in 1..Len(w.rows) |-> n],
                         LAMBDA n : /\ notna(w.rows[n].cells[baseline_col])
                                    /\ notna(w.rows[n].cells[tp_col(tp)]))
      change(n, tp)    == fu(n, tp) - bl(n)
      responder(n, tp) == IF higher_is_worse
                          THEN 2 * change(n, tp) <= 0 - bl(n)
                          ELSE 2 * change(n, tp) >= bl(n)
      improved(n, tp)  == IF higher_is_worse THEN change(n, tp) < 0 ELSE change(n, tp) > 0
      entry(tp) ==
        LET paired == both(tp)
            N == Len(paired)
            improved_n  == Cardinality({k \in 1..N : improved(paired[k], tp)})
            responder_n == Cardinality({k \in 1..N : responder(paired[k], tp)})
        IN  [Comparison |-> <<"t1", tp>>,
             N_paired |-> N,
             Mean_baseline |-> RoundHalfEven(100 * SumSeq([k \in 1..N |-> bl(paired[k])]), N),
             Mean_followup |-> RoundHalfEven(100 * SumSeq([k \in 1..N |-> fu(paired[k], tp)]), N),
             Mean_change |-> RoundHalfEven(100 * SumSeq([k \in 1..N |-> change(paired[k], tp)]), N),
             Improved_N |-> improved_n,
             Improved_pct |-> RoundHalfEven(1000 * improved_n, N),
             Responders_N |-> responder_n,
             Responders_pct |-> RoundHalfEven(1000 * responder_n, N)]
      tps == SelectSeq(<<"t3", "t4", "t5", "t6">>,
                LAMBDA tp : tp_col(tp) \in w.columns /\ both(tp) # <<>>)
  IN  IF baseline_col \notin w.columns THEN <<>>
      ELSE [k \in 1..Len(tps) |-> entry(tps[k])]

\* the calls of step 8: phq9_total and gad7_total with higher_is_worse=True,
\* who5_total with higher_is_worse=False
OUTCOME_SCALES ==
  << [scale_name |-> <<"phq9", "total">>, higher_is_worse |-> TRUE],
     [scale_name |-> <<"gad7", "total">>, higher_is_worse |-> TRUE],
     [scale_name |-> <<"who5", "total">>, higher_is_worse |-> FALSE] >>

\* step 8, the scale summaries and the outcome tabs of phq9_total,
\* gad7_total and who5_total
CreateImprovementAnalysis ==
  /\ pc = "scored"
  /\ df_scale_summary' =
       [k \in 1..Len(OUTCOME_SCALES) |->
          create_scale_summary(df_wide, OUTCOME_SCALES[k].scale_name)]
  /\ df_outcomes' =
       [k \in 1..Len(OUTCOME_SCALES) |->
          create_improvement_analysis(df_wide, OUTCOME_SCALES[k].scale_name,
                                      OUTCOME_SCALES[k].higher_is_worse)]
  /\ pc' = "analysed"
  /\ UNCHANGED <<df, df_rescheduled, df_participants, df_time_varying, df_wide,
                 pivot_path, printed, report>>

NextAnalysis == Next \/ CreateImprovementAnalysis

MaxPaired == 2

\* totals of a scale at a visit: null, 0, 8 or 20
PairValues == {NA, <<0>>, <<8>>, <<20>>}

\* the visits that every participant of the table has
PairVisits == {<<1, 3>>, <<1, 2>>, <<1>>, <<3>>}

\* the input with the column '{scale}' on the rows of the visits, one row
\* per participant and visit, participant by participant
PairTable(scale_name, visits, values) ==
  [columns |-> {scale_name},
   rows |-> [i \in 1..(Len(values) * Len(visits)) |->
               LET id == ((i - 1) \div Len(visits)) + 1
                   v  == ((i - 1) % Len(visits)) + 1
               IN  [record_id |-> id,
                    redcap_event_name |-> StandardLabel(visits[v]),
                    vals |-> [c \in {scale_name} |-> values[id][v]]]]]

InitImprovement ==
  /\ \E k \in 1..Len(OUTCOME_SCALES) : \E visits \in PairVisits : \E n \in 1..MaxPaired :
        \E values \in [1..n -> [1..Len(visits) -> PairValues]] :
           df = PairTable(OUTCOME_SCALES[k].scale_name, visits, values)
  /\ pc = "read"
  /\ df_rescheduled = <<>>
  /\ df_participants = <<>>
  /\ df_time_varying = NoFrame
  /\ df_wide = NoWide
  /\ pivot_path = "none"
  /\ df_outcomes = <<>>
  /\ df_scale_summary = <<>>
  /\ report = NoReport
  /\ printed = ReadMessages(df)

SpecImprovement == InitImprovement /\ [][NextAnalysis]_vars

\* the participants of the wide table with both the baseline and the
\* follow-up value of the scale present
PairedRows(scale_name, tp) ==
  {n \in 1..Len(df_wide.rows) :
     /\ scale_name \o <<"t1">> \in df_wide.columns
     /\ scale_name \o <<tp>> \in df_wide.columns
     /\ notna(df_wide.rows[n].cells[scale_name \o <<"t1">>])
     /\ notna(df_wide.rows[n].cells[scale_name \o <<tp>>])}

BaselineValue(scale_name, n) == df_wide.rows[n].cells[scale_name \o <<"t1">>][1]

FollowupValue(scale_name, tp, n) == df_wide.rows[n].cells[scale_name \o <<tp>>][1]

\* the sum of f over the set S of row numbers
RECURSIVE TotalOver(_, _)
TotalOver(S, f) ==
  IF S = {} THEN 0
  ELSE LET n == CHOOSE x \in S : TRUE IN f[n] + TotalOver(S \ {n}, f)

\* C20: in the paired analysis, only participants with both the baseline
\* and the follow-up value present are counted; change is follow-up minus
\* baseline; improved is change < 0 for a higher-is-worse instrument and
\* change > 0 otherwise; responder is a change of at least 50% of the
\* baseline value in the improving direction.  Baseline 20 and follow-up 8
\* on a higher-is-worse instrument gives change -12, improved and responder.
C20_PairedAnalysis ==
  pc = "analysed" =>
    \A k \in 1..Len(OUTCOME_SCALES) : \A tp \in {"t3", "t4", "t5", "t6"} :
       LET s       == OUTCOME_SCALES[k].scale_name
           worse   == OUTCOME_SCALES[k].higher_is_worse
           P       == PairedRows(s, tp)
           change  == [n \in P |-> FollowupValue(s, tp, n) - BaselineValue(s, n)]
           entries == {i \in 1..Len(df_outcomes[k]) : df_outcomes[k][i].Comparison = <<"t1", tp>>}
       IN  IF P = {} THEN entries = {}
           ELSE /\ Cardinality(entries) = 1
                /\ \A i \in entries :
                      LET e == df_outcomes[k][i]
                      IN  /\ e.N_paired = Cardinality(P)
                          /\ e.Mean_change = RoundHalfEven(100 * TotalOver(P, change), Cardinality(P))
                          /\ e.Improved_N =
                               Cardinality({n \in P : IF worse THEN change[n] < 0 ELSE change[n] > 0})
                          /\ e.Responders_N =
                               Cardinality({n \in P :
                                  IF worse
                                  THEN 2 * (BaselineValue(s, n) - FollowupValue(s, tp, n))
                                         >= BaselineValue(s, n)
                                  ELSE 2 * (FollowupValue(s, tp, n) - BaselineValue(s, n))
                                         >= BaselineValue(s, n)})
                          /\ (/\ worse /\ Cardinality(P) = 1
                              /\ \A n \in P : BaselineValue(s, n) = 20
                                              /\ FollowupValue(s, tp, n) = 8)
                             => /\ e.Mean_change = 0 - 1200
                                /\ e.Improved_N = 1
                                /\ e.Responders_N = 1

\* baseline 20 and follow-up 8 on PHQ-9, next to a participant whose
\* follow-up value is missing and who is not counted
C20_Witness ==
  /\ pc = "analysed"
  /\ Len(df_wide.rows) = 2
  /\ PairedRows(<<"phq9", "total">>, "t3") = {1}
  /\ BaselineValue(<<"phq9", "total">>, 1) = 20
  /\ FollowupValue(<<"phq9", "total">>, "t3", 1) = 8
  /\ notna(df_wide.rows[2].cells[<<"phq9", "total", "t1">>])
  /\ Len(df_outcomes[1]) = 1
  /\ df_outcomes[1][1].N_paired = 1
  /\ df_outcomes[1][1].Responders_N = 1

\* the paired participants whose baseline value is not zero
NonZeroBaselineRows(scale_name, tp) ==
  {n \in PairedRows(scale_name, tp) : BaselineValue(scale_name, n) # 0}

\* C21: a participant whose baseline score is zero is not classified as a
\* responder in the paired analysis: the responders of a comparison are
\* counted among the paired participants with a non-zero baseline only.
C21_ZeroBaselineNotResponder ==
  pc = "analysed" =>
    \A k \in 1..Len(OUTCOME_SCALES) : \A i \in 1..Len(df_outcomes[k]) :
       LET e == df_outcomes[k][i]
           s == OUTCOME_SCALES[k].scale_name
       IN  e.Responders_N <= Cardinality(NonZeroBaselineRows(s, e.Comparison[2]))

(***************************************************************************)
(* The MEQ-4 flag: tables of one participant with one visit that has the   *)
(* meq4 items, in whole points of the item range (0, 5)                    *)
(***************************************************************************)
MEQ4 == QUESTIONNAIRES[CHOOSE k \in 1..Len(QUESTIONNAIRES) : QUESTIONNAIRES[k].key = <<"meq4">>]

\* item values: null, or 0, 3, 4, 5 points
MysticalCells == {NA, <<0>>, <<3>>, <<4>>, <<5>>}

\* the visit of the row: the dosing follow-up under either spelling, or a
\* visit for which meq4 is not declared
MysticalEvents == {StandardLabel(2), RescheduledLabel(2), StandardLabel(3)}

MysticalTable(event, last_absent, values) ==
  LET items == InputItems(MEQ4)
      kept  == IF last_absent THEN SubSeq(items, 1, Len(items) - 1) ELSE items
  IN  [columns |-> Range(kept),
       rows |-> << [record_id |-> 1,
                    redcap_event_name |-> event,
                    vals |-> [c \in Range(kept) |->
                                values[CHOOSE j \in 1..Len(kept) : kept[j] = c]]] >>]

InitMystical ==
  /\ \E event \in MysticalEvents : \E last_absent \in BOOLEAN :
        \E values \in [1..MEQ4.items -> MysticalCells] :
           df = MysticalTable(event, last_absent, values)
  /\ pc = "read"
  /\ df_rescheduled = <<>>
  /\ df_participants = <<>>
  /\ df_time_varying = NoFrame
  /\ df_wide = NoWide
  /\ pivot_path = "none"
  /\ df_outcomes = <<>>
  /\ df_scale_summary = <<>>
  /\ report = NoReport
  /\ printed = ReadMessages(df)

SpecMystical == InitMystical /\ [][Next]_vars

MysticalColumn(tp) == <<"meq4", "mystical", tp>>

\* the flag of a row at tp: undefined when the table has no such column
MysticalFlag(w, row, tp) ==
  IF MysticalColumn(tp) \in w.columns THEN row[MysticalColumn(tp)] ELSE NA

\* C22: the MEQ-4 notable-experience flag is Yes exactly when the total is
\* defined and at least 3.5, No exactly when the total is defined and below
\* 3.5, and undefined exactly when the total is undefined; with all four
\* items present at the dosing follow-up the total is defined and the flag
\* is Yes exactly when the items sum to at least 14.
C22_MysticalFlagFollowsTotal ==
  pc = "scored" =>
    \A n \in 1..Len(df_wide.rows) : \A tp \in Range(TIMEPOINT_ORDER) :
       LET row   == df_wide.rows[n].cells
           flag  == MysticalFlag(df_wide, row, tp)
           total == IF TotalDefined(df_wide, row, MEQ4, tp)
                    THEN row[TotalColumn(MEQ4, tp)] ELSE NA
       IN  /\ flag \in {NA, <<"Yes">>, <<"No">>}
           /\ flag = <<"Yes">> <=> (notna(total) /\ 2 * total[1].num >= 7 * total[1].den)
           /\ flag = <<"No">>  <=> (notna(total) /\ 2 * total[1].num < 7 * total[1].den)
           /\ isna(flag) <=> isna(total)
           /\ (TpNum(tp) \in MEQ4.timepoints /\ AllItemsPresent(df_wide, row, MEQ4, tp))
                => /\ notna(total)
                   /\ flag = <<"Yes">> <=>
                        2 * AddUp(ItemValues(row, MEQ4, tp), MEQ4.items) >= 7 * MEQ4.items

\* items 3, 3, 4, 4 at the dosing follow-up: the mean is exactly 3.5 and
\* the flag is Yes
C22_Witness ==
  /\ pc = "scored"
  /\ AllItemsPresent(df_wide, df_wide.rows[1].cells, MEQ4, "t2")
  /\ AddUp(ItemValues(df_wide.rows[1].cells, MEQ4, "t2"), MEQ4.items) = 14
  /\ MysticalFlag(df_wide, df_wide.rows[1].cells, "t2") = <<"Yes">>

\* the participants of the wide table with a value of the scale at tp
ObservedRows(scale_name, tp) ==
  {n \in 1..Len(df_wide.rows) :
     /\ scale_name \o <<tp>> \in df_wide.columns
     /\ notna(df_wide.rows[n].cells[scale_name \o <<tp>>])}

\* C23: the cross-sectional summary of a score column has one row for each
\* canonical timepoint that has at least one non-missing value, with N
\* equal to the count of non-missing values, the rows in canonical order; a
\* timepoint with zero observations has no row.
C23_SummaryRowPerObservedTimepoint ==
  pc = "analysed" =>
    \A k \in 1..Len(OUTCOME_SCALES) :
       LET s == OUTCOME_SCALES[k].scale_name
           S == df_scale_summary[k]
       IN  /\ \A tp \in Range(TIMEPOINT_ORDER) :
                 Cardinality({i \in 1..Len(S) : S[i].Timepoint = tp})
                   = IF ObservedRows(s, tp) = {} THEN 0 ELSE 1
           /\ \A i \in 1..Len(S) :
                 /\ S[i].Timepoint \in Range(TIMEPOINT_ORDER)
                 /\ S[i].N = Cardinality(ObservedRows(s, S[i].Timepoint))
                 /\ S[i].N > 0
           /\ \A i, j \in 1..Len(S) :
                 i < j => TpNum(S[i].Timepoint) < TpNum(S[j].Timepoint)

\* two participants with a baseline value, one of them with a follow-up
\* value at one month and the other with a null there; the summary has the
\* rows t1 (N = 2) and t3 (N = 1), and gad7_total, which has the column
\* at no timepoint, has an empty summary
C23_Witness ==
  /\ pc = "analysed"
  /\ Len(df_wide.rows) = 2
  /\ <<"phq9", "total", "t3">> \in df_wide.columns
  /\ Len(df_scale_summary[1]) = 2
  /\ df_scale_summary[1][1].Timepoint = "t1" /\ df_scale_summary[1][1].N = 2
  /\ df_scale_summary[1][2].Timepoint = "t3" /\ df_scale_summary[1][2].N = 1
  /\ df_scale_summary[2] = <<>>

\* a timepoint whose column holds no value at all has no row
ZeroObservationTimepoint ==
  /\ pc = "analysed"
  /\ <<"phq9", "total", "t3">> \in df_wide.columns
  /\ ObservedRows(<<"phq9", "total">>, "t3") = {}
  /\ ObservedRows(<<"phq9", "total">>, "t1") # {}

\* C27: for the baseline t1, create_improvement_analysis produces one
\* comparison for each canonical timepoint later than the baseline that has
\* at least one paired participant, and none for the baseline itself or an
\* earlier timepoint.
C27_ComparisonPerLaterTimepoint ==
  pc = "analysed" =>
    \A k \in 1..Len(OUTCOME_SCALES) :
       LET s == OUTCOME_SCALES[k].scale_name
           entries(tp) == {i \in 1..Len(df_outcomes[k]) :
                             df_outcomes[k][i].Comparison = <<"t1", tp>>}
       IN  /\ \A tp \in Range(TIMEPOINT_ORDER) :
                 Cardinality(entries(tp))
                   = IF TpNum(tp) > TpNum("t1") /\ PairedRows(s, tp) # {} THEN 1 ELSE 0
           /\ \A i \in 1..Len(df_outcomes[k]) :
                 /\ df_outcomes[k][i].Comparison[1] = "t1"
                 /\ df_outcomes[k][i].Comparison[2] \in Range(TIMEPOINT_ORDER)

\* the part of C27 that holds: one comparison for each of t3 .. t6 that has
\* a paired participant, and no other comparison
ComparisonPerListedTimepoint ==
  pc = "analysed" =>
    \A k \in 1..Len(OUTCOME_SCALES) :
       LET s == OUTCOME_SCALES[k].scale_name
           entries(tp) == {i \in 1..Len(df_outcomes[k]) :
                             df_outcomes[k][i].Comparison = <<"t1", tp>>}
       IN  /\ \A tp \in Range(TIMEPOINT_ORDER) :
                 Cardinality(entries(tp))
                   = IF TpNum(tp) >= 3 /\ PairedRows(s, tp) # {} THEN 1 ELSE 0
           /\ \A i \in 1..Len(df_outcomes[k]) :
                 /\ df_outcomes[k][i].Comparison[1] = "t1"
                 /\ df_outcomes[k][i].Comparison[2] \in Range(TIMEPOINT_ORDER)

\* consent status, name and demographics of a participant with two or more
\* baseline rows are those of the first such row in input order
DuplicateBaselineFirstWins ==
  pc \in {"participants", "pivoted"} =>
    \A k \in 1..Len(df_participants) :
       LET p == df_participants[k]
       IN  Cardinality(BaselineOf(p.record_id)) >= 2 =>
             /\ p.has_baseline
             /\ p.consent_status = ConsentStatus(df, FirstBaseline(p.record_id))
             /\ p.consent_nameprint = FirstName(df, FirstBaseline(p.record_id))
             /\ FieldsFromBaseline(p, DEMO_FIELDS)

\* C28: when a participant has more than one row labelled as baseline,
\* consent status, name and demographics are all taken from the first such
\* row in input order, and the duplication is surfaced as a data-quality
\* flag.
C28_DuplicateBaselineFirstWinsAndFlagged ==
  /\ DuplicateBaselineFirstWins
  /\ pc \in {"participants", "pivoted", "merged", "scored"} =>
       ((\E id \in 1..MaxPid : Cardinality(BaselineOf(id)) >= 2) => IssueReported)

\* the canonical timepoints that some row of the participant resolves to
ResolvedTimepoints(id) ==
  {tp \in CanonicalTimepoints : CanonicalRows(id, tp) # {}}

\* C29: the timepoints list of a participant contains only canonical
\* timepoints (never a raw visit label), each at most once, in canonical
\* order, and it contains a timepoint exactly when the participant has a row
\* resolving to it.
C29_TimepointsListIsCanonical ==
  pc \in {"participants", "pivoted", "merged", "scored"} =>
    \A k \in 1..Len(df_participants) :
       LET p == df_participants[k]
           L == p.timepoints
       IN  /\ Range(L) \subseteq CanonicalTimepoints
           /\ \A i, j \in 1..Len(L) : i < j => TpNum(L[i][1]) < TpNum(L[j][1])
           /\ Range(L) = ResolvedTimepoints(p.record_id)

\* the part of C29 that holds: the canonical timepoints of the list are
\* those the participant has a row for, each once and in canonical order;
\* every other entry is the raw label of a row that resolves to none
CanonicalPartOfTimepointsList ==
  pc \in {"participants", "pivoted", "merged", "scored"} =>
    \A k \in 1..Len(df_participants) :
       LET p == df_participants[k]
           L == SelectSeq(p.timepoints, LAMBDA x : x \in CanonicalTimepoints)
       IN  /\ Range(L) = ResolvedTimepoints(p.record_id)
           /\ \A i, j \in 1..Len(L) : i < j => TpNum(L[i][1]) < TpNum(L[j][1])
           /\ \A x \in Range(p.timepoints) \ CanonicalTimepoints :
                 \E i \in RowsOf(df, p.record_id) :
                    /\ df.rows[i].redcap_event_name = x
                    /\ x \notin DOMAIN TIMEPOINT_MAP

(***************************************************************************)
(* The AUDIT version indicator                                             *)
(***************************************************************************)
AUDITC == QUESTIONNAIRES[CHOOSE k \in 1..Len(QUESTIONNAIRES) : QUESTIONNAIRES[k].key = <<"auditc">>]

AUDIT_FULL ==
  QUESTIONNAIRES[CHOOSE k \in 1..Len(QUESTIONNAIRES) : QUESTIONNAIRES[k].key = <<"audit", "full">>]

\* the indicator of a row at tp: undefined when the table has no such column
AuditVersion(w, row, tp) ==
  IF <<"audit", "version", tp>> \in w.columns THEN row[<<"audit", "version", tp>>] ELSE NA

\* C30: for every participant and valid timepoint, the AUDIT version
\* indicator is 'full' exactly when the full AUDIT total (AUDIT-C items 1 to
\* 3 plus items 4 to 10) is defined, 'short' exactly when the AUDIT-C total
\* is defined and the full total is not, and undefined otherwise.
C30_AuditVersionAgreesWithTotals ==
  pc = "scored" =>
    \A n \in 1..Len(df_wide.rows) : \A tp \in Range(TIMEPOINT_ORDER) :
       TpNum(tp) \in AUDIT_FULL.timepoints =>
         LET row     == df_wide.rows[n].cells
             version == AuditVersion(df_wide, row, tp)
             full    == TotalDefined(df_wide, row, AUDIT_FULL, tp)
             short   == TotalDefined(df_wide, row, AUDITC, tp)
         IN  /\ version = <<"full">> <=> full
             /\ version = <<"short">> <=> (short /\ ~full)
             /\ isna(version) <=> (~short /\ ~full)

\* what the indicator does follow: with all ten item columns in the table
\* it is 'full' exactly when items 4 to 10 all have a value, whatever items
\* 1 to 3 hold
AuditVersionFollowsItems4To10 ==
  pc = "scored" =>
    \A n \in 1..Len(df_wide.rows) : \A tp \in Range(TIMEPOINT_ORDER) :
       (/\ TpNum(tp) \in AUDIT_FULL.timepoints
        /\ AllIn(ScoredItems(AUDIT_FULL, tp), df_wide.columns)) =>
         LET row == df_wide.rows[n].cells
         IN  AuditVersion(df_wide, row, tp) = <<"full">>
               <=> \A i \in 4..10 : notna(row[<<"audit", ItemStr[i], tp>>])

\* AUDIT-C item 1 without a value and items 4 to 10 all present: the
\* indicator is 'full' although neither total is defined
FullVersionWithoutFullTotal ==
  /\ pc = "scored"
  /\ AllIn(ScoredItems(AUDIT_FULL, "t1"), df_wide.columns)
  /\ <<"auditc", "total">> \notin df.columns
  /\ isna(df_wide.rows[1].cells[<<"auditc", "1", "t1">>])
  /\ AuditVersion(df_wide, df_wide.rows[1].cells, "t1") = <<"full">>
  /\ ~TotalDefined(df_wide, df_wide.rows[1].cells, AUDIT_FULL, "t1")
  /\ ~TotalDefined(df_wide, df_wide.rows[1].cells, AUDITC, "t1")

(***************************************************************************)
(* Step 9: renaming the timepoint codes for the output                     *)
(***************************************************************************)
\* a name that ends in '_t2' is left as it is
RenamedColumn_keep_t2(col) ==
  IF Len(col) >= 2 /\ col[Len(col)] \in DOMAIN OUTPUT_TIMEPOINT_LABELS \ {"t2"}
  THEN SubSeq(col, 1, Len(col) - 1) \o <<OUTPUT_TIMEPOINT_LABELS[col[Len(col)]]>>
  ELSE col

\* col[:-len(f'_{internal}')] + f'_{output}' for the code that col ends in
RenamedColumn(col) ==
  IF Len(col) >= 2 /\ col[Len(col)] \in DOMAIN OUTPUT_TIMEPOINT_LABELS
  THEN SubSeq(col, 1, Len(col) - 1) \o <<OUTPUT_TIMEPOINT_LABELS[col[Len(col)]]>>
  ELSE col

\* df.rename(columns=rename_map): the columns under their new names, the
\* cell of a new name being that of the old name it came from
rename_timepoint_columns(w) ==
  [columns |-> {RenamedColumn(c) : c \in w.columns},
   rows |-> [k \in 1..Len(w.rows) |->
               [info  |-> w.rows[k].info,
                cells |-> [c \in {RenamedColumn(x) : x \in w.columns} |->
                             w.rows[k].cells[CHOOSE x \in w.columns : RenamedColumn(x) = c]]]]]

\* str.replace of every code by its alias, on one name of a ', '-joined
\* text: a code is two characters 't' and a digit, and no raw label of the
\* checked inputs has them next to each other
rename_timepoints_value(val) ==
  IF Len(val) = 1 /\ val[1] \in DOMAIN OUTPUT_TIMEPOINT_LABELS
  THEN <<OUTPUT_TIMEPOINT_LABELS[val[1]]>>
  ELSE val

\* step 9 on the main table, the scale summaries and the outcome tabs
RenameTimepointColumns ==
  /\ pc = "analysed"
  /\ df_wide' =
       LET w == rename_timepoint_columns(df_wide)
       IN  [w EXCEPT !.rows =
              [k \in 1..Len(w.rows) |->
                 [w.rows[k] EXCEPT !.info.timepoints =
                    [i \in 1..Len(@) |-> rename_timepoints_value(@[i])]]]]
  /\ df_scale_summary' =
       [k \in 1..Len(df_scale_summary) |->
          [i \in 1..Len(df_scale_summary[k]) |->
             [df_scale_summary[k][i] EXCEPT !.Timepoint = rename_timepoints_value(<<@>>)[1]]]]
  /\ df_outcomes' =
       [k \in 1..Len(df_outcomes) |->
          [i \in 1..Len(df_outcomes[k]) |->
             [df_outcomes[k][i] EXCEPT !.Comparison =
                [j \in 1..Len(@) |-> rename_timepoints_value(<<@[j]>>)[1]]]]]
  /\ pc' = "renamed"
  /\ UNCHANGED <<df, df_rescheduled, df_participants, df_time_varying, pivot_path,
                 printed, report>>

NextOutput == NextAnalysis \/ RenameTimepointColumns

\* the visit labels of the output tables: every key of the map and two
\* labels that are not keys
OutputEvents == DOMAIN TIMEPOINT_MAP \cup {UNKNOWN_PLAIN, UNKNOWN_R}

\* the data column: a total that the outcome tabs read, or an item
OutputVars == {<<"phq9", "total">>, <<"expectancy", "1">>}

OutputValues == {<<0>>, <<8>>}

\* one participant with two rows
OutputTable(var, e1, e2, v1, v2) ==
  [columns |-> {var},
   rows |-> << [record_id |-> 1, redcap_event_name |-> e1, vals |-> [c \in {var} |-> v1]],
               [record_id |-> 1, redcap_event_name |-> e2, vals |-> [c \in {var} |-> v2]] >>]

InitOutput ==
  /\ \E var \in OutputVars : \E e1, e2 \in OutputEvents : \E v1, v2 \in OutputValues :
        df = OutputTable(var, e1, e2, v1, v2)
  /\ pc = "read"
  /\ df_rescheduled = <<>>
  /\ df_participants = <<>>
  /\ df_time_varying = NoFrame
  /\ df_wide = NoWide
  /\ pivot_path = "none"
  /\ df_outcomes = <<>>
  /\ df_scale_summary = <<>>
  /\ report = NoReport
  /\ printed = ReadMessages(df)

SpecOutput == InitOutput /\ [][NextOutput]_vars

\* TIMEPOINT_LABELS of the report generator, in the order of the dictionary
TIMEPOINT_LABELS ==
  << [key |-> "bl", label |-> "Baseline"], [key |-> "3d", label |-> "3 Days"],
     [key |-> "1mo", label |-> "1 Month"], [key |-> "3mo", label |-> "3 Months"],
     [key |-> "6mo", label |-> "6 Months"], [key |-> "12mo", label |-> "12 Months"] >>

\* the aliases of t1 .. t6
ALIASES == <<"bl", "3d", "1mo", "3mo", "6mo", "12mo">>

\* the name ends in an internal code
EndsInCode(col) == Len(col) >= 2 /\ col[Len(col)] \in Range(TIMEPOINT_ORDER)

\* the stem of the name followed by the alias of the code it ends in
WithAlias(col) ==
  SubSeq(col, 1, Len(col) - 1) \o <<ALIASES[TpNum(col[Len(col)])]>>

\* C25: in the saved primary table every column whose name ends in an
\* internal code _t1 .. _t6 is renamed to the same stem ending in that
\* timepoint's alias (bl, 3d, 1mo, 3mo, 6mo, 12mo) and keeps its cells, every
\* other column keeps its name, no column keeps an internal code, two
\* distinct columns never get the same new name, and the aliases and their
\* order are the ones the report generator reads.
C25_ColumnsRenamedToAliases ==
  [][(pc = "analysed" /\ pc' = "renamed") =>
       /\ df_wide'.columns =
            {IF EndsInCode(c) THEN WithAlias(c) ELSE c : c \in df_wide.columns}
       /\ \A c \in df_wide.columns : \A n \in 1..Len(df_wide.rows) :
             df_wide'.rows[n].cells[IF EndsInCode(c) THEN WithAlias(c) ELSE c]
               = df_wide.rows[n].cells[c]
       /\ \A c \in df_wide'.columns : ~EndsInCode(c)
       /\ Cardinality(df_wide'.columns) = Cardinality(df_wide.columns)
       /\ Len(TIMEPOINT_LABELS) = Len(TIMEPOINT_ORDER)
       /\ \A k \in 1..Len(TIMEPOINT_ORDER) :
             /\ OUTPUT_TIMEPOINT_LABELS[TIMEPOINT_ORDER[k]] = ALIASES[k]
             /\ TIMEPOINT_LABELS[k].key = ALIASES[k]]_vars

\* a table with a total at the three-day and the twelve-month visit and
\* their severity columns: all four columns carry the alias
C25_Witness ==
  /\ pc = "renamed"
  /\ df_wide.columns = {<<"phq9", "total", "3d">>, <<"phq9", "total", "12mo">>,
                        <<"phq9", "severity", "3d">>, <<"phq9", "severity", "12mo">>}
  /\ df_wide.rows[1].cells[<<"phq9", "total", "12mo">>] = <<8>>

\* a column of a visit that resolves to no timepoint keeps its name
UnresolvedColumnKeepsName ==
  /\ pc = "renamed"
  /\ <<"expectancy", "1", "nan">> \in df_wide.columns
  /\ <<"expectancy", "1", "bl">> \in df_wide.columns

(***************************************************************************)
(* The individual report: generate_individual_report on the saved main     *)
(* table.  A report is the record of what the page shows: the identifier   *)
(* of the header, the title, the timepoints of the charts and the PHQ-9    *)
(* change box.                                                             *)
(***************************************************************************)
Abs(x) == IF x < 0 THEN 0 - x ELSE x

\* The change box: 'No data' when a score is missing; otherwise the points
\* of change, the percentage as f'{abs(pct_change):.0f}' prints it, and the
\* status.  pct_change = (change / baseline * 100) if baseline != 0 else 0
create_change_summary(baseline, current, higher_is_worse) ==
  IF isna(baseline) \/ isna(current)
  THEN [status |-> "No data", points |-> NA, pct |-> NA]
  ELSE LET change   == current[1] - baseline[1]
           improved == IF higher_is_worse THEN change < 0 ELSE change > 0
           below5   == IF baseline[1] # 0
                       THEN 100 * Abs(change) < 5 * Abs(baseline[1])
                       ELSE TRUE
       IN  [status |-> IF below5 THEN "Stable"
                       ELSE IF improved THEN "Improved" ELSE "Needs attention",
            points |-> <<Abs(change)>>,
            pct    |-> IF baseline[1] # 0
                       THEN <<RoundHalfEven(100 * Abs(change), Abs(baseline[1]))>>
                       ELSE <<0>>]

\* timepoint_map of generate_individual_report
REPORT_TIMEPOINT_MAP ==
  ("1mo"  :> [show |-> <<"bl", "3d", "1mo">>, title |-> "1-Month"]) @@
  ("3mo"  :> [show |-> <<"bl", "3d", "1mo", "3mo">>, title |-> "3-Month"]) @@
  ("6mo"  :> [show |-> <<"bl", "3d", "1mo", "3mo", "6mo">>, title |-> "6-Month"]) @@
  ("12mo" :> [show |-> [k \in 1..Len(TIMEPOINT_LABELS) |-> TIMEPOINT_LABELS[k].key],
              title |-> "12-Month"])

\* participant.get(col, np.nan)
ParticipantGet(w, row, col) == IF col \in w.columns THEN row.cells[col] ELSE NA

\* the report page for the first row of the participant, or the ValueError
\* f"Participant {participant_id} not found"
generate_individual_report(w, participant_id, timepoint) ==
  LET participant == {n \in 1..Len(w.rows) : w.rows[n].info.record_id = participant_id}
      request     == [participant_id |-> participant_id, timepoint |-> timepoint]
  IN  IF participant = {}
      THEN [outcome |-> "ValueError", request |-> request,
            message |-> [text |-> "Participant not found", named |-> participant_id]]
      ELSE LET row   == w.rows[CHOOSE n \in participant : \A m \in participant : n <= m]
               entry == IF timepoint \in DOMAIN REPORT_TIMEPOINT_MAP
                        THEN REPORT_TIMEPOINT_MAP[timepoint]
                        ELSE REPORT_TIMEPOINT_MAP["12mo"]
           IN  [outcome |-> "rendered", request |-> request,
                header_id |-> row.info.record_id,
                report_title |-> entry.title,
                show_timepoints |-> entry.show,
                phq9_scores |-> [k \in 1..Len(entry.show) |->
                                   ParticipantGet(w, row, <<"phq9", "total", entry.show[k]>>)],
                phq9_change |->
                   create_change_summary(
                      ParticipantGet(w, row, <<"phq9", "total", "bl">>),
                      ParticipantGet(w, row, <<"phq9", "total", timepoint>>), TRUE)]

\* the requests: a participant of the table and one that it does not have;
\* report timepoints, the baseline alias and a text that is no alias
ReportIds == {1, 2}

ReportTimepoints == {"1mo", "6mo", "12mo", "bl", "2mo"}

\* one call of generate_individual_report on the table of insights.csv
GenerateIndividualReport ==
  /\ pc = "renamed"
  /\ \E participant_id \in ReportIds : \E timepoint \in ReportTimepoints :
        report' = generate_individual_report(df_wide, participant_id, timepoint)
  /\ pc' = "reported"
  /\ UNCHANGED <<df, df_rescheduled, df_participants, df_time_varying, df_wide,
                 pivot_path, printed, df_outcomes, df_scale_summary>>

NextReport == NextOutput \/ GenerateIndividualReport

SpecReport == InitOutput /\ [][NextReport]_vars

\* the participant of a request is a row of the saved table
ParticipantAvailable(participant_id) ==
  \E n \in 1..Len(df_wide.rows) : df_wide.rows[n].info.record_id = participant_id

\* the titles of the four follow-up reports
ReportTitles ==
  ("1mo" :> "1-Month") @@ ("3mo" :> "3-Month") @@ ("6mo" :> "6-Month") @@ ("12mo" :> "12-Month")

\* C24: generate_individual_report called with a participant identifier or a
\* timepoint that is not available fails with a lookup error that names the
\* missing identifier; it never renders a report for a different participant
\* or timepoint than the one requested.  A timepoint is taken as available
\* when it is one of the four report timepoints.
C24_UnavailableRequestFails ==
  pc = "reported" =>
    LET r == report.request
    IN  /\ ~ParticipantAvailable(r.participant_id) =>
             /\ report.outcome = "ValueError"
             /\ report.message.named = r.participant_id
        /\ (ParticipantAvailable(r.participant_id) /\ r.timepoint \notin DOMAIN ReportTitles) =>
             /\ report.outcome = "ValueError"
             /\ report.message.named = r.timepoint
        /\ report.outcome = "rendered" =>
             /\ report.header_id = r.participant_id
             /\ report.report_title = ReportTitles[r.timepoint]

\* the part of C24 that holds: a participant that the table does not have
\* gives the error naming the identifier, and a rendered report is that of
\* the requested participant
ReportIsOfRequestedParticipant ==
  pc = "reported" =>
    LET r == report.request
    IN  /\ ~ParticipantAvailable(r.participant_id) =>
             /\ report.outcome = "ValueError"
             /\ report.message.named = r.participant_id
        /\ ParticipantAvailable(r.participant_id) =>
             /\ report.outcome = "rendered"
             /\ report.header_id = r.participant_id

\* the report of a participant whose PHQ-9 is 0 at baseline and 8 at one
\* month shows a change of 0%
ZeroBaselineChangeShownAsZeroPercent ==
  /\ pc = "reported"
  /\ report.outcome = "rendered"
  /\ report.request.timepoint = "1mo"
  /\ ParticipantGet(df_wide, df_wide.rows[1], <<"phq9", "total", "bl">>) = <<0>>
  /\ ParticipantGet(df_wide, df_wide.rows[1], <<"phq9", "total", "1mo">>) = <<8>>
  /\ report.phq9_change = [status |-> "Stable", points |-> <<8>>, pct |-> <<0>>]

(***************************************************************************)
(* The sample-data generator: generate_realistic_data writes the table     *)
(* that integrate_full reads by default (data/sample_data.xlsx).  The      *)
(* checked tables have one participant and the columns of one instrument.  *)
(***************************************************************************)
\* The instrument blocks of generate_realistic_data: the name given to
\* should_have_questionnaire, the prefix of the item columns as written, the
\* number of item columns, the least and the greatest item value, and the
\* logical timepoints of should_have_questionnaire.
GENERATED_INSTRUMENTS ==
  << [questionnaire |-> "phq9", column |-> <<"phq9">>, items |-> 9, lo |-> 0, hi |-> 3,
      timepoints |-> {1, 3, 4, 5, 6}],
     [questionnaire |-> "gad7", column |-> <<"gad7">>, items |-> 7, lo |-> 0, hi |-> 3,
      timepoints |-> {1, 3, 4, 5, 6}],
     [questionnaire |-> "who5", column |-> <<"who", "5">>, items |-> 5, lo |-> 0, hi |-> 5,
      timepoints |-> {1, 3, 4, 5, 6}],
     [questionnaire |-> "psyflex", column |-> <<"psyflex">>, items |-> 6, lo |-> 1, hi |-> 5,
      timepoints |-> {1, 3, 4, 5, 6}],
     [questionnaire |-> "auditc", column |-> <<"auditc">>, items |-> 3, lo |-> 0, hi |-> 4,
      timepoints |-> {1, 3, 4, 5, 6}],
     [questionnaire |-> "meq4", column |-> <<"meq4">>, items |-> 4, lo |-> 3, hi |-> 4,
      timepoints |-> {2}],
     [questionnaire |-> "ebi", column |-> <<"ebi">>, items |-> 6, lo |-> 0, hi |-> 5,
      timepoints |-> {2}],
     [questionnaire |-> "ceq", column |-> <<"ceq">>, items |-> 7, lo |-> 0, hi |-> 5,
      timepoints |-> {2}],
     [questionnaire |-> "piq", column |-> <<"piq">>, items |-> 9, lo |-> 1, hi |-> 5,
      timepoints |-> {2}],
     [questionnaire |-> "expectancy", column |-> <<"expect">>, items |-> 1, lo |-> 5, hi |-> 10,
      timepoints |-> {1}] >>

\* row[f'{prefix}_{i}'] for the items of a block
GeneratedItems(g) == {g.column \o <<ItemStr[i]>> : i \in 1..g.items}

\* row['phq9_totalscore'], row['gad7_totalscore']
GeneratedTotalscore(g) ==
  IF g.questionnaire \in {"phq9", "gad7"} THEN {g.column \o <<"totalscore">>} ELSE {}

\* assign_timepoint_pattern: timepoints 1 and 2 and the selected follow-ups,
\* all with the '_r' spelling (but timepoint 1) or all without
assign_timepoint_pattern(selected_followups, dosing_rescheduled) ==
  LET timepoints_to_use == SelectSeq(<<1, 2, 3, 4, 5, 6>>,
                              LAMBDA tp : tp \in {1, 2} \cup selected_followups)
  IN  [k \in 1..Len(timepoints_to_use) |->
         [event_name |-> IF dosing_rescheduled /\ timepoints_to_use[k] # 1
                         THEN RescheduledLabel(timepoints_to_use[k])
                         ELSE StandardLabel(timepoints_to_use[k]),
          logical_tp |-> timepoints_to_use[k]]]

\* the selections of follow-ups of the checked tables
SelectedFollowups == {{3}, {4, 6}, {3, 4, 5, 6}}

\* pd.DataFrame(rows) for one participant: the block of g is complete on
\* the visits of complete, every item having the value val; a row without
\* the block has no value in its columns
GeneratedTable(g, selected_followups, dosing_rescheduled, complete, val) ==
  LET timepoints == assign_timepoint_pattern(selected_followups, dosing_rescheduled)
      cols       == GeneratedItems(g) \cup GeneratedTotalscore(g)
  IN  [columns |-> cols,
       rows |-> [k \in 1..Len(timepoints) |->
                   [record_id |-> 1,
                    redcap_event_name |-> timepoints[k].event_name,
                    vals |-> [c \in cols |->
                                IF timepoints[k].logical_tp \notin complete THEN NA
                                ELSE IF c \in GeneratedItems(g) THEN <<val>>
                                ELSE <<val * g.items>>]]]]

NoTable == [columns |-> {}, rows |-> <<>>]

InitGenerator ==
  /\ pc = "generate"
  /\ df = NoTable
  /\ df_rescheduled = <<>>
  /\ df_participants = <<>>
  /\ df_time_varying = NoFrame
  /\ df_wide = NoWide
  /\ pivot_path = "none"
  /\ df_outcomes = <<>>
  /\ df_scale_summary = <<>>
  /\ report = NoReport
  /\ printed = <<>>

\* generate_realistic_data for one participant and one instrument block
GenerateRealisticData ==
  /\ pc = "generate"
  /\ \E k \in 1..Len(GENERATED_INSTRUMENTS) : \E selected_followups \in SelectedFollowups :
        \E dosing_rescheduled \in BOOLEAN :
           LET g        == GENERATED_INSTRUMENTS[k]
               visits   == {1, 2} \cup selected_followups
           IN  \E complete \in SUBSET (g.timepoints \cap visits) : \E val \in {g.lo, g.hi} :
                  /\ complete # {}
                  /\ df' = GeneratedTable(g, selected_followups, dosing_rescheduled,
                                          complete, val)
  /\ pc' = "generated"
  /\ UNCHANGED <<df_rescheduled, df_participants, df_time_varying, df_wide, pivot_path,
                 printed, df_outcomes, df_scale_summary, report>>

\* step 1 of integrate_full on the generated file
ReadData ==
  /\ pc = "generated"
  /\ printed' = ReadMessages(df)
  /\ pc' = "read"
  /\ UNCHANGED <<df, df_rescheduled, df_participants, df_time_varying, df_wide, pivot_path,
                 df_outcomes, df_scale_summary, report>>

NextGenerator == Next \/ GenerateRealisticData \/ ReadData

SpecGenerator == InitGenerator /\ [][NextGenerator]_vars

\* the registry entry of an instrument block
RegistryEntry(g) ==
  QUESTIONNAIRES[CHOOSE k \in 1..Len(QUESTIONNAIRES) :
                   QUESTIONNAIRES[k].key = <<g.questionnaire>>]

\* the block of g has been written on some row of the table
Emitted(g) ==
  \E i \in 1..Len(df.rows) : \E c \in GeneratedItems(g) \cap df.columns :
     notna(df.rows[i].vals[c])

\* the rows of the table on which the block of g is complete
CompleteRows(g) ==
  {i \in 1..Len(df.rows) :
     \A c \in GeneratedItems(g) : c \in df.columns /\ notna(df.rows[i].vals[c])}

\* The item columns of g carry the registry's key and item count, and on
\* every visit with the block the integration has the pivoted items and a
\* defined total.
PivotedAndScored(g) ==
  LET q == RegistryEntry(g)
  IN  /\ GeneratedItems(g) = {q.key \o <<ItemStr[i]>> : i \in 1..q.items}
      /\ \A i \in CompleteRows(g) :
            LET tp == TIMEPOINT_MAP[df.rows[i].redcap_event_name]
            IN  /\ AllItemsPresent(df_wide, df_wide.rows[1].cells, q, tp)
                /\ TotalDefined(df_wide, df_wide.rows[1].cells, q, tp)

\* C26: every instrument item column written by the sample-data generator
\* is named {instrument key}_{item index} with the registry's key and item
\* count, so that the integration pivots and scores every instrument the
\* generator emits (PHQ-9, GAD-7, WHO-5, PsyFlex, AUDIT-C, MEQ-4, EBI, CEQ,
\* PIQ, expectancy).
C26_GeneratedInstrumentsAreScored ==
  pc = "scored" =>
    \A k \in 1..Len(GENERATED_INSTRUMENTS) :
       Emitted(GENERATED_INSTRUMENTS[k]) => PivotedAndScored(GENERATED_INSTRUMENTS[k])

\* the part of C26 that holds: the seven instruments other than WHO-5, PIQ
\* and expectancy are pivoted and scored
GeneratedInstrumentsScoredButThree ==
  pc = "scored" =>
    \A k \in 1..Len(GENERATED_INSTRUMENTS) :
       LET g == GENERATED_INSTRUMENTS[k]
       IN  (Emitted(g) /\ g.questionnaire \notin {"who5", "piq", "expectancy"})
             => PivotedAndScored(g)

\* the generated WHO-5 block leaves the integration without any column
Who5BlockIsIgnored ==
  /\ pc = "scored"
  /\ <<"who", "5", "1">> \in df.columns
  /\ df_wide.columns = {}

\* the generated PIQ block is pivoted but gets no total
PiqBlockIsNotScored ==
  /\ pc = "scored"
  /\ <<"piq", "9">> \in df.columns
  /\ <<"piq", "9", "t2">> \in df_wide.columns
  /\ <<"piq", "total", "t2">> \notin df_wide.columns

====
